---- MODULE Spec2Model ----
(***************************************************************************)
(* Model of the tagged save-file framework of crawl-ref/source/tags.cc:    *)
(* the primitive codec (marshallByte/Short/Long over the shared tagBuffer), *)
(* the record framework (tag_construct, tag_write, tag_read, tag_missing,  *)
(* tag_set_expected) and the monster table touched by the attitude         *)
(* recovery.                                                               *)
(*                                                                         *)
(* A C long is modelled as a pair [hi, lo] standing for hi * 2^16 + lo     *)
(* with lo in 0..65535, so that both a 32-bit and a 64-bit long keep their *)
(* width without leaving the 32-bit integers of TLC.                       *)
(***************************************************************************)
EXTENDS Integers, Sequences, FiniteSets, TLC

VARIABLES
    host,       \* the build: width of long, signedness of plain char
    tagBuffer,  \* THE BIG IMPORTANT TAG CONSTRUCTION/PARSE BUFFER
    th,         \* the tagHeader in use: [tagID, offset]
    stream,     \* the bytes of the file behind saveFile / fp
    rpos,       \* read position of fp in stream
    vlen,       \* number of leading header-less (TAG_VERSION) bytes of stream
    mode,       \* "save": the file is being written; "load": it is being read
    status,     \* "running", "ended" (end(-1)) or "crashed" (buffer overrun)
    tags,       \* the caller's char tags[NUM_TAGS] expectation array
    mi,         \* the caller's index in its loop over still-expected tags
    fileType,   \* the file kind the caller handed to tag_set_expected
    menv,       \* the monster table
    last,       \* what the last framework call saw and returned
    written,    \* tag IDs of the records tag_write put on the stream, in order
    returned,   \* the non-zero results of tag_read since the file was opened
    foreign,    \* TRUE once stream holds bytes this program did not write
    fields,     \* codec: the values handed to the marshall functions, in order
    outs,       \* codec: the values the unmarshall functions returned, in order
    tt          \* MersenneTwister: index of the next word of rt to hand out

vars == <<host, tagBuffer, th, stream, rpos, vlen, mode, status, tags, mi,
          fileType, menv, last, written, returned, foreign, fields, outs, tt>>

----------------------------------------------------------------------------
(* Bounds of the model *)

\* bytes malloc'ed by tag_init (its largest_tag argument comes from the caller)
TagBufSize == 8
\* longest payload a modelled domain encoder writes
MaxPayload == 2
\* bytes of one file
MaxStream == 16
\* values marshalled into one record by the codec specification
MaxFields == 2
\* monsters in the table (MAX_MONSTERS of the build)
MaxMonsters == 2
\* longest string handed to marshallString
MaxStrLen == 3
\* largest maxSize handed to marshallString and to the string decoders
MaxSize == 3
\* largest key of the maps handed to marshallMap
MaxKey == 3
\* ghosts of one ghost file (MAX_GHOSTS of the build)
MAX_GHOSTS == 2
\* values of one ghost (NUM_GHOST_VALUES of the build)
NUM_GHOST_VALUES == 2
\* largest count of values a stored ghost of another version carries
MaxGhostCount == 200
\* traps of a level (MAX_TRAPS of the build)
MAX_TRAPS == 2
\* equipment slots of the player (NUM_EQUIP of the build)
NUM_EQUIP == 2
\* width and height of the level grids of the reading build (GXM, GYM)
GXM == 3
GYM == 2
\* width and height of the largest grid handed to run_length_encode
MaxWidth == 16
MaxHeight == 17

(* Program constants: enum tag_type and enum tag_file_type of tags.h *)
TAG_VERSION == 0
TAG_YOU == 1
TAG_YOU_ITEMS == 2
TAG_YOU_DUNGEON == 3
TAG_LEVEL == 4
TAG_LEVEL_ITEMS == 5
TAG_LEVEL_MONSTERS == 6
TAG_GHOST == 7
TAG_LEVEL_ATTITUDE == 8
TAG_LOST_MONSTERS == 9
NUM_TAGS == 10
tagHdrSize == 6

----------------------------------------------------------------------------
(* Integer conversions of the build *)

Min(a, b) == IF a <= b THEN a ELSE b

\* conversion to unsigned char
ToUChar(v) == v % 256

\* conversion to signed char (two's complement)
ToSChar(v) == ((v + 128) % 256) - 128

\* conversion to plain char: signed or unsigned, as the build has it
ToChar(v) == IF host.charSigned THEN ToSChar(v) ELSE ToUChar(v)

\* conversion to short (16 bits, two's complement)
ToShort(v) == ((v + 32768) % 65536) - 32768

\* a C long of value hi * 2^16 + lo
LongOf(n) == [hi |-> n \div 65536, lo |-> n % 65536]

\* conversion to long of a result computed in unbounded arithmetic: a 32-bit
\* long wraps into -2^31..2^31-1, a 64-bit long holds it as it is
ToLong(l) ==
    IF host.longBits = 32
    THEN [hi |-> ToShort(l.hi), lo |-> l.lo]
    ELSE l

LongIsPositive(l) == l.hi > 0 \/ (l.hi = 0 /\ l.lo > 0)

\* (unsigned int)l compared with a byte count n < 2^16: the smaller of both
UIntMin(l, n) == IF l.hi % 65536 # 0 THEN n ELSE Min(l.lo, n)

----------------------------------------------------------------------------
(* tagHeader: byte access to tagBuffer at th.offset (file == NULL) *)

\* tagHeader::writeByte: tagBuffer[offset++] = ch
writeByte(buf, off, ch) == [buf EXCEPT ![off] = ToUChar(ch)]

\* tagHeader::readByte: return tagBuffer[offset++], as unsigned char
readByte(buf, off) == ToUChar(buf[off])

\* the bytes bs stored at buf[off], buf[off+1], ...
writeBytes(buf, off, bs) ==
    [i \in DOMAIN buf |->
        IF i >= off /\ i < off + Len(bs) THEN ToUChar(bs[i - off + 1])
        ELSE buf[i]]

----------------------------------------------------------------------------
(* Primitive codec *)

\* marshallByte(th, char data): one byte
marshallByte(data) == <<ToUChar(data)>>

\* unmarshallByte: char result of th.readByte()
unmarshallByte(buf, off) == ToChar(readByte(buf, off))

MutMarshallShort(data) ==
    <<ToUChar(data % 256), ToUChar((data % 65536) \div 256)>>

\* marshallShort(th, short data): b1 = (data & 0xFF00) >> 8, b2 = data & 0xFF
marshallShort(data) ==
    <<ToUChar((data % 65536) \div 256), ToUChar(data % 256)>>

\* unmarshallShort: short data = (b1 << 8) | (b2 & 0x00FF)
unmarshallShort(buf, off) ==
    LET b1 == readByte(buf, off)
        b2 == readByte(buf, off + 1)
    IN  ToShort(b1 * 256 + (b2 % 256))

\* marshallLong(th, long data): the four low-order bytes, b1 first
marshallLong(data) ==
    <<ToUChar((data.hi % 65536) \div 256), ToUChar(data.hi % 256),
      ToUChar(data.lo \div 256), ToUChar(data.lo % 256)>>

\* unmarshallLong: long b1..b4 from unsigned bytes;
\* data = (b1 << 24) | ((b2 & 0xFF) << 16) | ((b3 & 0xFF) << 8) | (b4 & 0xFF)
unmarshallLong(buf, off) ==
    LET b1 == readByte(buf, off)
        b2 == readByte(buf, off + 1)
        b3 == readByte(buf, off + 2)
        b4 == readByte(buf, off + 3)
    IN  ToLong([hi |-> b1 * 256 + b2, lo |-> b3 * 256 + b4])

\* marshallBoolean(th, bool data): charRep = 0, 1 if data
marshallBoolean(data) == <<ToUChar(IF data THEN 1 ELSE 0)>>

MutUnmarshallBoolean(buf, off) == ToChar(readByte(buf, off)) # 0

\* unmarshallBoolean: const char read = th.readByte(); read == 1
unmarshallBoolean(buf, off) == ToChar(readByte(buf, off)) = 1

\* the first n elements of s
Prefix(s, n) == SubSeq(s, 1, Min(n, Len(s)))

MutMarshallString(data, maxSize) ==
    marshallShort(ToShort(Len(data))) \o data

\* marshallString(th, data, maxSize): the length, clamped to maxSize when
\* maxSize > 0, as a short, then that many bytes of data
marshallString(data, maxSize) ==
    LET len == IF maxSize > 0 /\ Len(data) > maxSize THEN maxSize ELSE Len(data)
    IN  marshallShort(ToShort(len)) \o Prefix(data, len)

\* tagHeader::read(data, size): size bytes from the cursor, as plain chars
read(buf, off, size) == [i \in 1 .. size |-> ToChar(buf[off + i - 1])]

MutUnmarshallCString(buf, off, maxSize) ==
    LET len == unmarshallShort(buf, off)
        copylen == IF len >= maxSize /\ maxSize > 0 THEN maxSize - 1 ELSE len
    IN  [data |-> Append(read(buf, off + 2, copylen), 0),
         ret |-> copylen,
         offset |-> off + 2 + copylen]

\* unmarshallCString(th, data, maxSize): copylen chars and a terminator in
\* data, the cursor behind the len stored bytes, copylen returned
unmarshallCString(buf, off, maxSize) ==
    LET len == unmarshallShort(buf, off)
        copylen == IF len >= maxSize /\ maxSize > 0 THEN maxSize - 1 ELSE len
    IN  [data |-> Append(read(buf, off + 2, copylen), 0),
         ret |-> copylen,
         offset |-> (off + 2 + copylen) + (len - copylen)]

\* unmarshallString(th, maxSize): std::string(buffer, slen)
unmarshallString(buf, off, maxSize) ==
    IF maxSize <= 0
    THEN [res |-> <<>>, offset |-> off]
    ELSE LET c == unmarshallCString(buf, off, maxSize)
         IN  [res |-> SubSeq(c.data, 1, c.ret), offset |-> c.offset]

----------------------------------------------------------------------------
(* Run-length codec of a grid g[x][y] of one-byte cells *)

\* the longest run one pair holds
RunCap == 255

\* g[x][y] = value: conversion to the unsigned one-byte cell
GridCell(value) == ToUChar(value)

\* marshallByte(th, nlast); m(th, last): one pair, m being marshallByte
RunPair(nlast, lastv) == marshallByte(ToChar(nlast)) \o marshallByte(ToChar(lastv))

RECURSIVE RowLoop(_, _, _, _, _)
\* for (x ...; x < width; ++x): the inner loop of run_length_encode in row y,
\* st holding last, nlast and the bytes marshalled so far
RowLoop(g, width, y, x, st) ==
    IF x >= width
    THEN st
    ELSE LET cell == g[x][y]
             l0 == IF st.nlast = 0 THEN cell ELSE st.last
         IN  IF l0 = cell /\ st.nlast < RunCap
             THEN RowLoop(g, width, y, x + 1,
                          [last |-> l0, nlast |-> st.nlast + 1, out |-> st.out])
             ELSE RowLoop(g, width, y, x + 1,
                          [last |-> cell, nlast |-> 1,
                           out |-> st.out \o RunPair(st.nlast, l0)])

RECURSIVE EncodeLoop(_, _, _, _, _)
\* for (y ...; y < height; ++y): the outer loop, and the flush after it
EncodeLoop(g, width, height, y, st) ==
    IF y >= height
    THEN st.out \o RunPair(st.nlast, st.last)
    ELSE EncodeLoop(g, width, height, y + 1, RowLoop(g, width, y, 0, st))

MutRunLengthEncode(g, width, height) ==
    EncodeLoop(g, width, height, 0, [last |-> 0, nlast |-> 1, out |-> <<>>])

\* run_length_encode(th, marshallByte, g, width, height): last = 0, nlast = 0
run_length_encode(g, width, height) ==
    EncodeLoop(g, width, height, 0, [last |-> 0, nlast |-> 0, out |-> <<>>])

RECURSIVE DecodeLoop(_, _, _, _, _, _, _)
\* the while loop of run_length_decode with offset cells done and the cursor
\* at off; a run that leaves the grid stores outside g
DecodeLoop(buf, off, g, width, height, offset, overrun) ==
    IF offset >= width * height
    THEN [g |-> g, offset |-> off, overrun |-> overrun]
    ELSE LET run == ToUChar(unmarshallByte(buf, off))
             value == unmarshallByte(buf, off + 1)
             stop == offset + run
             g2 == [x \in 0 .. width - 1 |-> [y \in 0 .. height - 1 |->
                      IF y * width + x >= offset /\ y * width + x < stop
                      THEN GridCell(value) ELSE g[x][y]]]
         IN  DecodeLoop(buf, off + 2, g2, width, height, stop,
                        overrun \/ stop > width * height)

MutRunLengthDecode(buf, off, g, width, height) ==
    LET r == DecodeLoop(buf, off, g, width, height, 0, FALSE)
    IN  [r EXCEPT !.offset = r.offset + 1]

\* run_length_decode(th, unmarshallByte, g, width, height): offset = 0
run_length_decode(buf, off, g, width, height) ==
    DecodeLoop(buf, off, g, width, height, 0, FALSE)

----------------------------------------------------------------------------
(* MersenneTwister of mersenne.h: the index tt into the words rt[0 .. tx_n-1].
   No branch and no index of the class depends on the words themselves, so
   a generator is modelled by its tt. *)

tx_n == 624

\* init(seed): fills rt, then tt = tx_n
init(t) == tx_n

\* disturb(seed): changes rt only
disturb(t) == t

MutShuffle(t) == t

\* shuffle(): regenerates rt, then tt = 0
shuffle(t) == 0

\* rand32(): exit(0) when tt > tx_n, shuffle() when tt == tx_n, then
\* temper(rt[tt]) and tt++; read is the index of rt it reads
rand32(t) ==
    IF t > tx_n
    THEN [tt |-> t, read |-> -1, shuffled |-> FALSE, exited |-> TRUE]
    ELSE LET t1 == IF t = tx_n THEN shuffle(t) ELSE t
         IN  [tt |-> t1 + 1, read |-> t1, shuffled |-> t = tx_n, exited |-> FALSE]

\* init_array(seed, length): init(tx_fs), then rt is mixed with the seeds
init_array(t) == init(t)

\* one more rand32() of a generator in the loop of charge; ok says that no
\* call so far has exited or read outside rt
Draw(s) ==
    LET r == rand32(s.tt)
    IN  IF ~s.ok THEN s
        ELSE [tt |-> r.tt, ok |-> ~r.exited /\ r.read >= 0 /\ r.read < tx_n]

\* the generators rand32() is called on in the loop of charge
DrawStates == [tt : 0 .. tx_n + 1, ok : BOOLEAN]

RECURSIVE Repeated(_, _)
\* the function f applied k times
Repeated(f, k) ==
    IF k = 0 THEN [s \in DOMAIN f |-> s]
    ELSE IF k = 1 THEN f
    ELSE LET h == Repeated(f, k \div 2)
         IN  IF k % 2 = 0 THEN [s \in DOMAIN f |-> h[h[s]]]
             ELSE [s \in DOMAIN f |-> f[h[h[s]]]]

\* for (i = 0; i < k; i++) seed[i] = mt->rand32(): k calls, one after
\* the other
Draws(s, k) == Repeated([x \in DrawStates |-> Draw(x)], k)[s]

\* this->charge(mt): tx_n calls of mt->rand32(), then init_array(seed, tx_n);
\* self says that mt is this generator; the tt of both afterwards
charge(t, other, self) ==
    LET d == Draws([tt |-> IF self THEN t ELSE other, ok |-> TRUE], tx_n)
    IN  [tt |-> IF d.ok THEN init_array(IF self THEN d.tt ELSE t) ELSE t,
         other |-> d.tt, ok |-> d.ok]

\* MersenneTwister(): rt zeroed, tt = tx_n + 1, then init(0xd2a72df0)
MersenneTwister == init(tx_n + 1)

----------------------------------------------------------------------------
(* Initial state *)

\* the builds: long of 32 or 64 bits, plain char signed or unsigned
Hosts == [longBits : {32, 64}, charSigned : BOOLEAN]

\* a monster with nothing set
NoMonster ==
    [type |-> -1, created_friendly |-> FALSE, charm |-> FALSE, behaviour |-> 0,
     attitude |-> "ATT_HOSTILE", foe |-> 0, foe_memory |-> 0]

\* no framework call made yet
NoCall ==
    [op |-> "none", id |-> 0, n |-> 0, start |-> 0, moved |-> 0, ret |-> 0,
     decoders |-> <<>>, overrun |-> FALSE, payload |-> <<>>]

\* malloc does not initialise the buffer: what its bytes may hold at first
FreshBuffers == {[i \in 0 .. TagBufSize - 1 |-> f] : f \in {0, 255}}

\* what every specification starts from: an empty file, tag_init done
InitCommon ==
    /\ tt = MersenneTwister
    /\ host \in Hosts
    /\ tagBuffer \in FreshBuffers
    /\ th = [tagID |-> 0, offset |-> 0]
    /\ stream = <<>>
    /\ rpos = 0
    /\ vlen = 0
    /\ status = "running"
    /\ mi = 0
    /\ fileType = "none"
    /\ last = NoCall
    /\ written = <<>>
    /\ returned = <<>>
    /\ foreign = FALSE
    /\ fields = <<>>
    /\ outs = <<>>

----------------------------------------------------------------------------
(* Codec specification: values are marshalled into a record, the cursor is *)
(* reset as tag_read does, and the same kinds are unmarshalled in order.   *)

ByteInputs == {0, 1, 127, 128, 200, 255}
ShortInputs == {-32769, -32768, -1, 0, 258, 32767, 32768, 65535, 70000}
LongInputs ==
    {[hi |-> -32768, lo |-> 0], [hi |-> -1, lo |-> 65535], [hi |-> 0, lo |-> 0],
     [hi |-> 0, lo |-> 1], [hi |-> 258, lo |-> 772], [hi |-> 32767, lo |-> 65535]}

FlagInputs == {0, 1, 2, 255}

Field(kind, i, l, off) == [kind |-> kind, i |-> i, l |-> l, off |-> off]

\* bytes bs marshalled into the record at the cursor
Marshalled(kind, i, l, bs) ==
    /\ mode = "write"
    /\ Len(fields) < MaxFields
    /\ th.offset + Len(bs) <= TagBufSize
    /\ tagBuffer' = writeBytes(tagBuffer, th.offset, bs)
    /\ th' = [th EXCEPT !.offset = th.offset + Len(bs)]
    /\ fields' = Append(fields, Field(kind, i, l, th.offset))
    /\ UNCHANGED <<tt, host, stream, rpos, vlen, mode, status, tags, mi, fileType, menv,
                   last, written, returned, foreign, outs>>

\* a caller's marshallByte(th, v): v is converted to the char parameter
DoMarshallByte(v) == Marshalled("byte", v, LongOf(0), marshallByte(ToChar(v)))

\* a caller's marshallShort(th, v): v is converted to the short parameter
DoMarshallShort(v) == Marshalled("short", v, LongOf(0), marshallShort(ToShort(v)))

\* a caller's marshallLong(th, v)
DoMarshallLong(v) == Marshalled("long", 0, v, marshallLong(v))

\* a field that carries a value v of its own type instead of i and l
FieldOf(kind, v, off) == [kind |-> kind, v |-> v, off |-> off]

\* bytes bs marshalled into the record at the cursor, recorded as field f
MarshalledAs(f, bs) ==
    /\ mode = "write"
    /\ Len(fields) < MaxFields
    /\ th.offset + Len(bs) <= TagBufSize
    /\ tagBuffer' = writeBytes(tagBuffer, th.offset, bs)
    /\ th' = [th EXCEPT !.offset = th.offset + Len(bs)]
    /\ fields' = Append(fields, f)
    /\ UNCHANGED <<tt, host, stream, rpos, vlen, mode, status, tags, mi, fileType, menv,
                   last, written, returned, foreign, outs>>

\* a caller's marshallBoolean(th, b)
DoMarshallBoolean(b) ==
    MarshalledAs(FieldOf("bool", b, th.offset), marshallBoolean(b))

\* a byte some other writer stored where the decoder expects a boolean
DoMarshallFlagByte(v) ==
    MarshalledAs(FieldOf("flag", v, th.offset), marshallByte(ToChar(v)))

\* tag_read: th.offset = 0 before the record is handed to its decoder
BeginDecode ==
    /\ mode = "write"
    /\ fields # <<>>
    /\ mode' = "read"
    /\ th' = [th EXCEPT !.offset = 0]
    /\ UNCHANGED <<tt, host, tagBuffer, stream, rpos, vlen, status, tags, mi, fileType, menv,
                   last, written, returned, foreign, fields, outs>>

\* the decoder reads the next field with the call that mirrors the encoder's
Unmarshalled(kind, i, l, width) ==
    /\ mode = "read"
    /\ Len(outs) < Len(fields)
    /\ fields[Len(outs) + 1].kind = kind
    /\ outs' = Append(outs, Field(kind, i, l, th.offset))
    /\ th' = [th EXCEPT !.offset = th.offset + width]
    /\ UNCHANGED <<tt, host, tagBuffer, stream, rpos, vlen, mode, status, tags, mi,
                   fileType, menv, last, written, returned, foreign, fields>>

DoUnmarshallByte ==
    Unmarshalled("byte", unmarshallByte(tagBuffer, th.offset), LongOf(0), 1)

DoUnmarshallShort ==
    Unmarshalled("short", unmarshallShort(tagBuffer, th.offset), LongOf(0), 2)

DoUnmarshallLong ==
    Unmarshalled("long", 0, unmarshallLong(tagBuffer, th.offset), 4)

\* the decoder reads the next field, stored as kind, and moves the cursor by width
UnmarshalledAs(kind, f, width) ==
    /\ mode = "read"
    /\ Len(outs) < Len(fields)
    /\ fields[Len(outs) + 1].kind = kind
    /\ outs' = Append(outs, f)
    /\ th' = [th EXCEPT !.offset = th.offset + width]
    /\ UNCHANGED <<tt, host, tagBuffer, stream, rpos, vlen, mode, status, tags, mi,
                   fileType, menv, last, written, returned, foreign, fields>>

\* a decoder's unmarshallBoolean(th), on a byte of marshallBoolean or another
DoUnmarshallBoolean ==
    \E kind \in {"bool", "flag"} :
        UnmarshalledAs(kind,
                       FieldOf("bool", unmarshallBoolean(tagBuffer, th.offset),
                               th.offset), 1)

\* for (i = 0; i < count_c; ++i): the number of times the body runs
LoopCount(count_c) == IF count_c > 0 THEN count_c ELSE 0

InitCodec ==
    /\ InitCommon
    /\ mode = "write"
    /\ tags = [i \in 0 .. NUM_TAGS - 1 |-> 0]
    /\ menv = [i \in 0 .. MaxMonsters - 1 |-> NoMonster]

NextCodec ==
    \/ \E v \in ByteInputs : DoMarshallByte(v)
    \/ \E v \in ShortInputs : DoMarshallShort(v)
    \/ \E v \in LongInputs : DoMarshallLong(v)
    \/ \E b \in BOOLEAN : DoMarshallBoolean(b)
    \/ \E v \in FlagInputs : DoMarshallFlagByte(v)
    \/ BeginDecode
    \/ DoUnmarshallByte
    \/ DoUnmarshallShort
    \/ DoUnmarshallLong
    \/ DoUnmarshallBoolean

SpecCodec == InitCodec /\ [][NextCodec]_vars

\* the end of field k in the record: where the next field starts
FieldEnd(k) == IF k < Len(fields) THEN fields[k + 1].off ELSE
               IF mode = "write" THEN th.offset ELSE -1

\* v reduced modulo 2^16 and read as a signed 16-bit value
Wrap16(v) == LET m == v % 65536 IN IF m >= 32768 THEN m - 65536 ELSE m

(* C8: marshallShort writes exactly two bytes, high-order byte first, and
   unmarshallShort of them returns v when v is in -32768..32767 and v reduced
   modulo 2^16, read as a signed 16-bit value, otherwise. *)
C8_ShortRoundTrip ==
    \A k \in 1 .. Len(fields) :
        fields[k].kind = "short" =>
            LET v == fields[k].i
                o == fields[k].off
            IN  /\ FieldEnd(k) \in {-1, o + 2}
                /\ tagBuffer[o] = (v % 65536) \div 256
                /\ tagBuffer[o + 1] = v % 256
                /\ k <= Len(outs) =>
                     /\ outs[k].i = Wrap16(v)
                     /\ (v \in -32768 .. 32767 => outs[k].i = v)

C8_Witness ==
    \E k \in 1 .. Len(outs) :
        /\ fields[k].kind = "short"
        /\ fields[k].i = 70000
        /\ outs[k].i = 4464
        /\ \E j \in 1 .. Len(outs) : fields[j].kind = "short" /\ outs[j].i = -32768

(* C9: marshallLong writes exactly four bytes, most significant first, and
   unmarshallLong of them returns v for every v of the signed 32-bit range,
   whether the long of the host has 32 or 64 bits. *)
C9_LongRoundTrip ==
    \A k \in 1 .. Len(fields) :
        fields[k].kind = "long" =>
            LET v == fields[k].l
                o == fields[k].off
            IN  /\ FieldEnd(k) \in {-1, o + 4}
                /\ tagBuffer[o] = (v.hi % 65536) \div 256
                /\ tagBuffer[o + 1] = v.hi % 256
                /\ tagBuffer[o + 2] = v.lo \div 256
                /\ tagBuffer[o + 3] = v.lo % 256
                /\ k <= Len(outs) => outs[k].l = v

(* C10: for every v in 0..255 unmarshallByte after marshallByte(v) returns
   v, so a decoder's loop over a one-byte count runs v times. *)
C10_ByteRoundTrip ==
    \A k \in 1 .. Len(outs) :
        fields[k].kind = "byte" =>
            /\ outs[k].i = fields[k].i
            /\ LoopCount(outs[k].i) = fields[k].i

\* where the decoder's cursor stood after it had read field k
OutEnd(k) == IF k < Len(outs) THEN outs[k + 1].off ELSE th.offset

(* C11: marshallBoolean writes exactly one byte, 1 for true and 0 for false;
   unmarshallBoolean consumes one byte and returns true exactly when that
   byte is 1 (0 and every value of 2..255 give false), so a boolean written
   by marshallBoolean is read back as it was. *)
C11_BooleanRoundTrip ==
    \A k \in 1 .. Len(fields) :
        fields[k].kind \in {"bool", "flag"} =>
            LET o == fields[k].off
            IN  /\ FieldEnd(k) \in {-1, o + 1}
                /\ fields[k].kind = "bool" =>
                     tagBuffer[o] = IF fields[k].v THEN 1 ELSE 0
                /\ k <= Len(outs) =>
                     /\ OutEnd(k) = o + 1
                     /\ outs[k].v = (tagBuffer[o] = 1)
                     /\ fields[k].kind = "bool" => outs[k].v = fields[k].v

C11_Witness ==
    /\ Len(outs) = 2
    /\ fields[1].kind = "bool" /\ fields[1].v /\ outs[1].v
    /\ fields[2].kind = "flag" /\ fields[2].v = 255 /\ ~outs[2].v

----------------------------------------------------------------------------
(* Ghosts *)

\* the maxSize of a ghost's name
GhostNameSize == 20

\* ghost_demon ghost: a ghost as its constructor leaves it
FreshGhost == [name |-> <<>>, values |-> [i \in 0 .. NUM_GHOST_VALUES - 1 |-> 0]]

RECURSIVE MarshallShorts(_, _, _)
\* for (i = from; i < to; i++) marshallShort(th, values[i])
MarshallShorts(values, from, to) ==
    IF from >= to THEN <<>>
    ELSE marshallShort(ToShort(values[from])) \o MarshallShorts(values, from + 1, to)

\* marshallGhost(th, ghost): name, NUM_GHOST_VALUES as a byte, the values
marshallGhost(ghost) ==
    marshallString(ghost.name, GhostNameSize)
    \o marshallByte(ToChar(NUM_GHOST_VALUES))
    \o MarshallShorts(ghost.values, 0, NUM_GHOST_VALUES)

\* unmarshallGhost(th): the ghost returned, the indexes of values it stored
\* at, and the cursor it leaves
unmarshallGhost(buf, off) ==
    LET nm == unmarshallString(buf, off, GhostNameSize)
        read_c == unmarshallByte(buf, nm.offset)
        count_c == IF read_c > NUM_GHOST_VALUES THEN NUM_GHOST_VALUES ELSE read_c
        n == LoopCount(count_c)
    IN  [ghost |-> [name |-> nm.res,
                    values |-> [i \in 0 .. NUM_GHOST_VALUES - 1 |->
                                  IF i < n
                                  THEN unmarshallShort(buf, nm.offset + 1 + 2 * i)
                                  ELSE FreshGhost.values[i]]],
         stored |-> 0 .. n - 1,
         offset |-> nm.offset + 1 + 2 * n]

RECURSIVE MarshallGhosts(_, _)
\* for (i = from; i < size; ++i) marshallGhost(th, ghosts[i])
MarshallGhosts(list, from) ==
    IF from > Len(list) THEN <<>>
    ELSE marshallGhost(list[from]) \o MarshallGhosts(list, from + 1)

\* tag_construct_ghost(th): ghosts.size() as a short, then every ghost
tag_construct_ghost(list) ==
    marshallShort(ToShort(Len(list))) \o MarshallGhosts(list, 1)

RECURSIVE ReadGhosts(_, _, _, _, _)
\* for (i ...; i < nghosts; ++i) ghosts.push_back(unmarshallGhost(th))
ReadGhosts(buf, off, list, i, nghosts) ==
    IF i >= nghosts THEN [ghosts |-> list, offset |-> off]
    ELSE LET r == unmarshallGhost(buf, off)
         IN  ReadGhosts(buf, r.offset, Append(list, r.ghost), i + 1, nghosts)

\* tag_read_ghost(th, minorVersion) with the global list ghosts holding list
tag_read_ghost(buf, off, list) ==
    LET nghosts == unmarshallShort(buf, off)
    IN  IF nghosts < 1 \/ nghosts > MAX_GHOSTS
        THEN [ghosts |-> list, offset |-> off + 2]
        ELSE ReadGhosts(buf, off + 2, list, 0, nghosts)

----------------------------------------------------------------------------
(* String specification: a string, with shorts before or after it, is      *)
(* marshalled into a record and read back with either string decoder.      *)

\* the builds that differ for a string: plain char signed or unsigned
StringHosts == {h \in Hosts : h.longBits = 32}

\* the i-th character of the text the strings are taken from
CharAt(i) == ToChar(IF i % 2 = 0 THEN 200 + i ELSE 96 + i)

\* the std::string arguments: the text cut at every length
StringInputs == {[i \in 1 .. n |-> CharAt(i)] : n \in 0 .. MaxStrLen}

\* shorts marshalled before and after the string
GuardInputs == {-2, 258}

\* a caller's marshallString(th, s, maxSize), once in a record
DoMarshallString(s, maxSize) ==
    /\ \A k \in 1 .. Len(fields) : fields[k].kind # "string"
    /\ MarshalledAs(FieldOf("string", [s |-> s, maxSize |-> maxSize], th.offset),
                    marshallString(s, maxSize))

\* a decoder's unmarshallString(th, maxSize)
DoUnmarshallString(maxSize) ==
    LET r == unmarshallString(tagBuffer, th.offset, maxSize)
    IN  UnmarshalledAs("string",
                       FieldOf("string",
                               [fn |-> "unmarshallString", maxSize |-> maxSize,
                                res |-> r.res, ret |-> Len(r.res)],
                               th.offset),
                       r.offset - th.offset)

\* a decoder's unmarshallCString(th, data, maxSize), data of maxSize chars
DoUnmarshallCString(maxSize) ==
    LET r == unmarshallCString(tagBuffer, th.offset, maxSize)
    IN  UnmarshalledAs("string",
                       FieldOf("string",
                               [fn |-> "unmarshallCString", maxSize |-> maxSize,
                                res |-> r.data, ret |-> r.ret],
                               th.offset),
                       r.offset - th.offset)

InitString ==
    /\ InitCodec
    /\ host \in StringHosts

NextString ==
    \/ \E s \in StringInputs, maxSize \in 0 .. MaxSize : DoMarshallString(s, maxSize)
    \/ \E v \in GuardInputs : DoMarshallShort(v)
    \/ BeginDecode
    \/ \E maxSize \in 1 .. MaxSize : DoUnmarshallString(maxSize)
    \/ \E maxSize \in 1 .. MaxSize : DoUnmarshallCString(maxSize)
    \/ DoUnmarshallShort

SpecString == InitString /\ [][NextString]_vars

\* the number of string bytes marshallString stored for field f
StoredLen(f) ==
    IF f.v.maxSize > 0 THEN Min(Len(f.v.s), f.v.maxSize) ELSE Len(f.v.s)

(* C12: for every maxSize > 0 and every string s of length at most maxSize,
   lengths maxSize and 0 included, unmarshallString(maxSize) after
   marshallString(s, maxSize) returns s unchanged. *)
C12_StringRoundTrip ==
    \A k \in 1 .. Len(outs) :
        (/\ fields[k].kind = "string"
         /\ outs[k].v.fn = "unmarshallString"
         /\ fields[k].v.maxSize > 0
         /\ outs[k].v.maxSize = fields[k].v.maxSize
         /\ Len(fields[k].v.s) <= fields[k].v.maxSize)
        => outs[k].v.res = fields[k].v.s

(* C13: for a string s longer than maxSize, marshallString writes the two-byte
   length maxSize followed by the first maxSize bytes of s, and decoding with
   the same maxSize yields exactly the first maxSize - 1 characters and the
   terminator, the returned length being maxSize - 1. *)
C13_LongStringTruncated ==
    \A k \in 1 .. Len(fields) :
        (/\ fields[k].kind = "string"
         /\ fields[k].v.maxSize > 0
         /\ Len(fields[k].v.s) > fields[k].v.maxSize)
        => LET o == fields[k].off
               m == fields[k].v.maxSize
               str == fields[k].v.s
           IN  /\ FieldEnd(k) \in {-1, o + 2 + m}
               /\ tagBuffer[o] = m \div 256
               /\ tagBuffer[o + 1] = m % 256
               /\ \A i \in 1 .. m : tagBuffer[o + 1 + i] = str[i] % 256
               /\ (k <= Len(outs) /\ outs[k].v.maxSize = m) =>
                     /\ outs[k].v.ret = m - 1
                     /\ \A i \in 1 .. m - 1 : outs[k].v.res[i] = str[i]
                     /\ outs[k].v.fn = "unmarshallString" =>
                            Len(outs[k].v.res) = m - 1
                     /\ outs[k].v.fn = "unmarshallCString" =>
                            Len(outs[k].v.res) = m /\ outs[k].v.res[m] = 0

C13_Witness ==
    \E k \in 1 .. Len(outs) :
        /\ fields[k].kind = "string"
        /\ Len(fields[k].v.s) = 3
        /\ fields[k].v.maxSize = 2
        /\ outs[k].v.fn = "unmarshallString"
        /\ outs[k].v.maxSize = 2
        /\ outs[k].v.res = <<CharAt(1)>>

(* C14: for every stored string and every maxSize > 0 of the decoder, the read
   cursor after unmarshallCString or unmarshallString stands exactly 2 + stored
   length behind where it stood, also when fewer bytes were copied, and a
   field written after the string decodes to the value written. *)
C14_CursorPastString ==
    \A k \in 1 .. Len(outs) :
        fields[k].kind = "string" =>
            /\ outs[k].v.maxSize > 0
            /\ outs[k].off = fields[k].off
            /\ OutEnd(k) = outs[k].off + 2 + StoredLen(fields[k])
            /\ (k < Len(outs) /\ fields[k + 1].kind = "short") =>
                  outs[k + 1].i = fields[k + 1].i

C14_Witness ==
    \E k \in 1 .. Len(outs) - 1 :
        /\ fields[k].kind = "string"
        /\ StoredLen(fields[k]) = 3
        /\ outs[k].v.maxSize = 1
        /\ outs[k].v.ret = 0
        /\ fields[k + 1].kind = "short"
        /\ outs[k + 1].i = 258

----------------------------------------------------------------------------
(* Grid specification: a grid is run-length encoded into a record, a byte  *)
(* may follow it, and the record is decoded into a grid of the same size.  *)

\* bytes of a buffer that holds the largest grid, one pair per cell
GridBufSize == 2 * MaxWidth * MaxHeight + 4

\* small grids, and large ones that hold runs of RunCap cells and more
SmallDims == {<<1, 1>>, <<2, 3>>, <<5, 4>>}
LargeDims == {<<MaxWidth, MaxHeight - 1>>, <<MaxWidth, MaxHeight>>}
GridDims == SmallDims \cup LargeDims

\* the grids of width w and height h handed to run_length_encode: all cells
\* equal, one value up to cell p in loop order and another from there on,
\* and for the small grids all cells distinct and alternating columns
GridsOf(w, h) ==
    {[x \in 0 .. w - 1 |-> [y \in 0 .. h - 1 |-> a]] : a \in {0, 200}}
    \cup {[x \in 0 .. w - 1 |-> [y \in 0 .. h - 1 |->
              IF y * w + x < p THEN 200 ELSE 3]] :
           p \in {1, RunCap, RunCap + 1, w * h - 1}}
    \cup (IF <<w, h>> \in SmallDims
          THEN {[x \in 0 .. w - 1 |-> [y \in 0 .. h - 1 |-> x * h + y + 120]],
                [x \in 0 .. w - 1 |-> [y \in 0 .. h - 1 |-> x % 2]]}
          ELSE {})

GridInputs ==
    UNION {{[g |-> g, width |-> d[1], height |-> d[2]] : g \in GridsOf(d[1], d[2])} :
           d \in GridDims}

\* what the grid of the decoder holds before run_length_decode fills it
StaleGrid(w, h) == [x \in 0 .. w - 1 |-> [y \in 0 .. h - 1 |-> 9]]

\* bytes bs marshalled at the cursor of the grid record, recorded as field f
GridMarshalled(f, bs) ==
    /\ mode = "write"
    /\ Len(fields) < MaxFields
    /\ th.offset + Len(bs) <= GridBufSize
    /\ tagBuffer' = writeBytes(tagBuffer, th.offset, bs)
    /\ th' = [th EXCEPT !.offset = th.offset + Len(bs)]
    /\ fields' = Append(fields, f)
    /\ UNCHANGED <<tt, host, stream, rpos, vlen, mode, status, tags, mi, fileType, menv,
                   last, written, returned, foreign, outs>>

\* an encoder's run_length_encode(th, marshallByte, g, width, height)
DoRunLengthEncode(in) ==
    /\ fields = <<>>
    /\ GridMarshalled(FieldOf("grid", in, th.offset),
                      run_length_encode(in.g, in.width, in.height))

\* the encoder's marshallByte(th, v) after the grid
DoMarshallAfterGrid(v) ==
    /\ fields # <<>>
    /\ GridMarshalled(Field("byte", v, LongOf(0), th.offset), marshallByte(ToChar(v)))

\* a decoder's run_length_decode(th, unmarshallByte, g, width, height)
DoRunLengthDecode ==
    /\ outs = <<>>
    /\ fields # <<>>
    /\ LET in == fields[1].v
           r == run_length_decode(tagBuffer, th.offset,
                                  StaleGrid(in.width, in.height),
                                  in.width, in.height)
       IN  UnmarshalledAs("grid",
                          FieldOf("grid", [g |-> r.g, overrun |-> r.overrun],
                                  th.offset),
                          r.offset - th.offset)

InitGrid ==
    /\ tt = MersenneTwister
    /\ host \in StringHosts
    /\ tagBuffer \in {[i \in 0 .. GridBufSize - 1 |-> f] : f \in {0, 255}}
    /\ th = [tagID |-> 0, offset |-> 0]
    /\ stream = <<>>
    /\ rpos = 0
    /\ vlen = 0
    /\ mode = "write"
    /\ status = "running"
    /\ tags = [i \in 0 .. NUM_TAGS - 1 |-> 0]
    /\ mi = 0
    /\ fileType = "none"
    /\ menv = [i \in 0 .. MaxMonsters - 1 |-> NoMonster]
    /\ last = NoCall
    /\ written = <<>>
    /\ returned = <<>>
    /\ foreign = FALSE
    /\ fields = <<>>
    /\ outs = <<>>

NextGrid ==
    \/ \E in \in GridInputs : DoRunLengthEncode(in)
    \/ \E v \in {77} : DoMarshallAfterGrid(v)
    \/ BeginDecode
    \/ DoRunLengthDecode
    \/ DoUnmarshallByte

SpecGrid == InitGrid /\ [][NextGrid]_vars

\* the run and the value of the i-th pair stored from offset o on
RunAt(o, i) == tagBuffer[o + 2 * (i - 1)]
ValueAt(o, i) == tagBuffer[o + 2 * (i - 1) + 1]

RECURSIVE RunSum(_, _)
\* the cells covered by the first i pairs stored from offset o on
RunSum(o, i) == IF i <= 0 THEN 0 ELSE RunSum(o, i - 1) + RunAt(o, i)

(* C15: for every grid of width >= 1 and height >= 1 with one-byte cells,
   run_length_decode of what run_length_encode wrote reproduces the grid,
   consumes exactly the bytes written (the byte after the grid is read back)
   and terminates without storing outside the grid; all-equal and
   all-distinct grids and runs of exactly 255, 256 and more cells included. *)
C15_RunLengthRoundTrip ==
    (outs # <<>> /\ fields[1].kind = "grid") =>
        /\ fields[1].v.width >= 1 /\ fields[1].v.height >= 1
        /\ outs[1].v.g = fields[1].v.g
        /\ ~outs[1].v.overrun
        /\ Len(fields) > 1 =>
              /\ OutEnd(1) = fields[2].off
              /\ Len(outs) > 1 => outs[2].i = fields[2].i

C15_Witness ==
    /\ host.charSigned
    /\ Len(outs) = 2
    /\ fields[1].kind = "grid"
    /\ fields[1].v.width * fields[1].v.height > RunCap + 1
    /\ fields[1].v.g[RunCap % fields[1].v.width][RunCap \div fields[1].v.width] = 200
    /\ fields[1].v.g[(RunCap + 1) % fields[1].v.width]
                     [(RunCap + 1) \div fields[1].v.width] = 3
    /\ outs[1].v.g = fields[1].v.g
    /\ outs[2].i = 77

(* C16: run_length_encode emits (run, value) pairs with every run in 1..255
   and the runs summing to width * height; the cells are taken with y as the
   outer and x as the inner index, every pair holds the value of the cells it
   covers, a pair ends only where the value changes or the run has reached
   255, and one last pair follows the last cell. *)
C16_RunLengthPairs ==
    (fields # <<>> /\ fields[1].kind = "grid" /\ FieldEnd(1) # -1) =>
        LET o == fields[1].off
            w == fields[1].v.width
            h == fields[1].v.height
            g == fields[1].v.g
            n == (FieldEnd(1) - o) \div 2
        IN  /\ FieldEnd(1) - o = 2 * n
            /\ n >= 1
            /\ \A i \in 1 .. n : RunAt(o, i) \in 1 .. 255
            /\ RunSum(o, n) = w * h
            /\ \A i \in 1 .. n :
                  \A c \in RunSum(o, i - 1) .. RunSum(o, i) - 1 :
                      g[c % w][c \div w] = ValueAt(o, i)
            /\ \A i \in 1 .. n - 1 :
                  ValueAt(o, i) # ValueAt(o, i + 1) \/ RunAt(o, i) = 255

C16_Witness ==
    /\ fields # <<>>
    /\ fields[1].kind = "grid"
    /\ mode = "write"
    /\ fields[1].v.width * fields[1].v.height = 272
    /\ th.offset = 6
    /\ RunAt(0, 1) = 255 /\ ValueAt(0, 1) = 200
    /\ RunAt(0, 2) = 1 /\ ValueAt(0, 2) = 200
    /\ RunAt(0, 3) = 16 /\ ValueAt(0, 3) = 3

----------------------------------------------------------------------------
(* Record framework: pure parts *)

\* buf[0 .. n-1] as a sequence: what write2(file, tagBuffer, n) puts out
Slice(buf, n) == [i \in 1 .. n |-> buf[i - 1]]

KnownTags == TAG_YOU .. TAG_LOST_MONSTERS

\* the switch of tag_construct: the encoders run for tagID, in order
Encoders(tagID) ==
    CASE tagID = TAG_YOU -> <<"tag_construct_you">>
      [] tagID = TAG_YOU_ITEMS -> <<"tag_construct_you_items">>
      [] tagID = TAG_YOU_DUNGEON -> <<"tag_construct_you_dungeon">>
      [] tagID = TAG_LEVEL -> <<"tag_construct_level">>
      [] tagID = TAG_LEVEL_ITEMS -> <<"tag_construct_level_items">>
      [] tagID = TAG_LEVEL_MONSTERS -> <<"tag_construct_level_monsters">>
      [] tagID = TAG_LEVEL_ATTITUDE -> <<"tag_construct_level_attitude">>
      [] tagID = TAG_GHOST -> <<"tag_construct_ghost">>
      [] tagID = TAG_LOST_MONSTERS ->
            <<"tag_construct_lost_monsters", "tag_construct_lost_items">>
      [] OTHER -> <<>>

\* the switch of tag_read: the decoders run for tagID, in order
Decoders(tagID) ==
    CASE tagID = TAG_YOU -> <<"tag_read_you">>
      [] tagID = TAG_YOU_ITEMS -> <<"tag_read_you_items">>
      [] tagID = TAG_YOU_DUNGEON -> <<"tag_read_you_dungeon">>
      [] tagID = TAG_LEVEL -> <<"tag_read_level">>
      [] tagID = TAG_LEVEL_ITEMS -> <<"tag_read_level_items">>
      [] tagID = TAG_LEVEL_MONSTERS -> <<"tag_read_level_monsters">>
      [] tagID = TAG_LEVEL_ATTITUDE -> <<"tag_read_level_attitude">>
      [] tagID = TAG_GHOST -> <<"tag_read_ghost">>
      [] tagID = TAG_LOST_MONSTERS ->
            <<"tag_read_lost_monsters", "tag_read_lost_items">>
      [] OTHER -> <<>>

\* the domain encoders, abstracted: the n bytes they leave in the record
\* (every encoder writes at least its leading count or string length)
EncoderPayload(tagID, n) == [i \in 1 .. n |-> 16 * tagID + i]

MutTagConstruct(buf, tagID, n) ==
    LET made == EncoderPayload(tagID, n)
    IN  [th |-> [tagID |-> ToShort(tagID), offset |-> Len(made)],
         buf |-> writeBytes(buf, 0, made)]

\* tag_construct(th, tagID): the record and the buffer it leaves
tag_construct(buf, tagID, n) ==
    LET made == IF Encoders(tagID) = <<>> THEN <<>> ELSE EncoderPayload(tagID, n)
    IN  [th |-> [tagID |-> ToShort(tagID), offset |-> Len(made)],
         buf |-> writeBytes(buf, 0, made)]

MutTagWriteLength(rec, buf) ==
    IF rec.offset = 0
    THEN [out |-> <<>>, buf |-> buf, th |-> rec]
    ELSE IF rec.tagID # TAG_VERSION
    THEN LET swap == Slice(buf, tagHdrSize)
             tagSize == rec.offset
             hdr == marshallShort(rec.tagID) \o marshallLong(LongOf(tagSize + tagHdrSize))
             buf1 == writeBytes(buf, 0, hdr)
             buf2 == writeBytes(buf1, 0, swap)
         IN  [out |-> Slice(buf1, Len(hdr)) \o Slice(buf2, tagSize),
              buf |-> buf2, th |-> [rec EXCEPT !.offset = tagSize]]
    ELSE [out |-> Slice(buf, rec.offset), buf |-> buf, th |-> rec]

MutTagWriteEmpty(rec, buf) ==
    IF rec.tagID # TAG_VERSION
    THEN LET swap == Slice(buf, tagHdrSize)
             tagSize == rec.offset
             hdr == marshallShort(rec.tagID) \o marshallLong(LongOf(tagSize))
             buf1 == writeBytes(buf, 0, hdr)
             buf2 == writeBytes(buf1, 0, swap)
         IN  [out |-> Slice(buf1, Len(hdr)) \o Slice(buf2, tagSize),
              buf |-> buf2, th |-> [rec EXCEPT !.offset = tagSize]]
    ELSE [out |-> Slice(buf, rec.offset), buf |-> buf, th |-> rec]

MutTagWriteKeepOffset(rec, buf) ==
    IF rec.offset = 0
    THEN [out |-> <<>>, buf |-> buf, th |-> rec]
    ELSE IF rec.tagID # TAG_VERSION
    THEN LET swap == Slice(buf, tagHdrSize)
             tagSize == rec.offset
             hdr == marshallShort(rec.tagID) \o marshallLong(LongOf(tagSize))
             buf1 == writeBytes(buf, 0, hdr)
             buf2 == writeBytes(buf1, 0, swap)
         IN  [out |-> Slice(buf1, Len(hdr)) \o Slice(buf2, tagSize),
              buf |-> buf2, th |-> [rec EXCEPT !.offset = Len(hdr)]]
    ELSE [out |-> Slice(buf, rec.offset), buf |-> buf, th |-> rec]

MutTagWriteNoRestore(rec, buf) ==
    IF rec.offset = 0
    THEN [out |-> <<>>, buf |-> buf, th |-> rec]
    ELSE IF rec.tagID # TAG_VERSION
    THEN LET tagSize == rec.offset
             hdr == marshallShort(rec.tagID) \o marshallLong(LongOf(tagSize))
             buf1 == writeBytes(buf, 0, hdr)
         IN  [out |-> Slice(buf1, Len(hdr)) \o Slice(buf1, tagSize),
              buf |-> buf1, th |-> [rec EXCEPT !.offset = tagSize]]
    ELSE [out |-> Slice(buf, rec.offset), buf |-> buf, th |-> rec]

\* tag_write(th, saveFile): the bytes appended to the file, and the buffer and
\* record it leaves
tag_write(rec, buf) ==
    IF rec.offset = 0
    THEN [out |-> <<>>, buf |-> buf, th |-> rec]
    ELSE IF rec.tagID # TAG_VERSION
    THEN LET swap == Slice(buf, tagHdrSize)
             tagSize == rec.offset
             hdr == marshallShort(rec.tagID) \o marshallLong(LongOf(tagSize))
             buf1 == writeBytes(buf, 0, hdr)
             buf2 == writeBytes(buf1, 0, swap)
         IN  [out |-> Slice(buf1, Len(hdr)) \o Slice(buf2, tagSize),
              buf |-> buf2, th |-> [rec EXCEPT !.offset = tagSize]]
    ELSE [out |-> Slice(buf, rec.offset), buf |-> buf, th |-> rec]

MutTagReadDefaultBreak(buf, strm, pos, crash) ==
    LET avail == Len(strm) - pos
        n1 == Min(tagHdrSize, avail)
        buf1 == writeBytes(buf, 0, SubSeq(strm, pos + 1, pos + n1))
        hdrID == unmarshallShort(buf1, 0)
        hdrLen == unmarshallLong(buf1, 2)
        n2 == UIntMin(hdrLen, avail - n1)
        overrun == n2 > TagBufSize
        buf2 == writeBytes(buf1, 0,
                    SubSeq(strm, pos + n1 + 1, pos + n1 + Min(n2, TagBufSize)))
        none == [ret |-> 0, decoders |-> <<>>, buf |-> buf1, pos |-> pos + n1,
                 overrun |-> FALSE, crashed |-> FALSE]
    IN  IF n1 # tagHdrSize THEN none
        ELSE IF hdrID <= 0 \/ ~LongIsPositive(hdrLen) THEN none
        ELSE IF overrun /\ crash
        THEN [none EXCEPT !.buf = buf2, !.pos = pos + n1 + n2,
                          !.overrun = TRUE, !.crashed = TRUE]
        ELSE IF ~(hdrLen.hi = 0 /\ hdrLen.lo = n2)
        THEN [none EXCEPT !.buf = buf2, !.pos = pos + n1 + n2, !.overrun = overrun]
        ELSE [none EXCEPT !.buf = buf2, !.pos = pos + n1 + n2, !.overrun = overrun,
                          !.ret = hdrID,
                          !.decoders = Decoders(hdrID)]

\* tag_read(fp, minorVersion) on file content strm read from position pos.
\* A payload longer than the buffer is stored past its end; crash says which
\* outcome of that overrun the build produces.
tag_read(buf, strm, pos, crash) ==
    LET avail == Len(strm) - pos
        n1 == Min(tagHdrSize, avail)
        buf1 == writeBytes(buf, 0, SubSeq(strm, pos + 1, pos + n1))
        hdrID == unmarshallShort(buf1, 0)
        hdrLen == unmarshallLong(buf1, 2)
        n2 == UIntMin(hdrLen, avail - n1)
        overrun == n2 > TagBufSize
        buf2 == writeBytes(buf1, 0,
                    SubSeq(strm, pos + n1 + 1, pos + n1 + Min(n2, TagBufSize)))
        none == [ret |-> 0, decoders |-> <<>>, buf |-> buf1, pos |-> pos + n1,
                 overrun |-> FALSE, crashed |-> FALSE]
    IN  IF n1 # tagHdrSize THEN none
        ELSE IF hdrID <= 0 \/ ~LongIsPositive(hdrLen) THEN none
        ELSE IF overrun /\ crash
        THEN [none EXCEPT !.buf = buf2, !.pos = pos + n1 + n2,
                          !.overrun = TRUE, !.crashed = TRUE]
        ELSE IF ~(hdrLen.hi = 0 /\ hdrLen.lo = n2)
        THEN [none EXCEPT !.buf = buf2, !.pos = pos + n1 + n2, !.overrun = overrun]
        ELSE [none EXCEPT !.buf = buf2, !.pos = pos + n1 + n2, !.overrun = overrun,
                          !.ret = IF Decoders(hdrID) = <<>> THEN 0 ELSE hdrID,
                          !.decoders = Decoders(hdrID)]

FileTypes ==
    {"TAGTYPE_PLAYER", "TAGTYPE_PLAYER_NAME", "TAGTYPE_LEVEL", "TAGTYPE_GHOST",
     "TAGTYPE_OTHER"}

MutSetExpectedGhost(old, kind) ==
    [i \in 0 .. NUM_TAGS - 1 |->
        IF \/ /\ kind = "TAGTYPE_PLAYER"
              /\ ((i >= TAG_YOU /\ i <= TAG_YOU_DUNGEON) \/ i = TAG_LOST_MONSTERS)
           \/ kind = "TAGTYPE_PLAYER_NAME" /\ i = TAG_YOU
           \/ kind = "TAGTYPE_LEVEL" /\ i >= TAG_LEVEL /\ i <= TAG_LEVEL_ATTITUDE
           \/ kind = "TAGTYPE_GHOST" /\ i = TAG_GHOST
        THEN 1 ELSE -1]

\* tag_set_expected(tags, fileType): every entry is set to -1 and then to 1
\* where the file type's case says so
tag_set_expected(old, kind) ==
    [i \in 0 .. NUM_TAGS - 1 |->
        IF \/ /\ kind = "TAGTYPE_PLAYER"
              /\ ((i >= TAG_YOU /\ i <= TAG_YOU_DUNGEON) \/ i = TAG_LOST_MONSTERS)
           \/ kind = "TAGTYPE_PLAYER_NAME" /\ i = TAG_YOU
           \/ /\ kind = "TAGTYPE_LEVEL"
              /\ i >= TAG_LEVEL /\ i <= TAG_LEVEL_ATTITUDE /\ i # TAG_GHOST
           \/ kind = "TAGTYPE_GHOST" /\ i = TAG_GHOST
        THEN 1 ELSE -1]

----------------------------------------------------------------------------
(* Monsters and the recovery of a missing TAG_LEVEL_ATTITUDE *)

BEH_SLEEP == 0
BEH_WANDER == 1
BEH_SEEK == 2
BEH_FLEE == 3
MHITNOT == MaxMonsters + 1

\* the switch on the legacy behaviour code: the new value of new_beh
LegacyBehaviour(code, new_beh) ==
    CASE code = 0 -> BEH_SLEEP
      [] code \in {3, 10} -> BEH_FLEE
      [] code \in {1, 6} -> BEH_SEEK
      [] OTHER -> new_beh

MutAttitudeOf(m, new_beh) ==
    LET isFriendly == m.created_friendly \/ m.behaviour = 7
    IN  [m EXCEPT !.foe = MHITNOT,
                  !.attitude = IF isFriendly THEN "ATT_FRIENDLY" ELSE "ATT_HOSTILE",
                  !.behaviour = LegacyBehaviour(m.behaviour, new_beh),
                  !.foe_memory = 0]

\* one pass of the loop body for monster m; new_beh is the function's local,
\* set once before the loop
AttitudeOf(m, new_beh) ==
    LET isFriendly == m.created_friendly \/ (m.behaviour = 7 /\ ~m.charm)
    IN  [m EXCEPT !.foe = MHITNOT,
                  !.attitude = IF isFriendly THEN "ATT_FRIENDLY" ELSE "ATT_HOSTILE",
                  !.behaviour = LegacyBehaviour(m.behaviour, new_beh),
                  !.foe_memory = 0]

RECURSIVE AttitudeLoop(_, _, _)
AttitudeLoop(tbl, i, new_beh) ==
    IF i >= MaxMonsters THEN tbl
    ELSE IF tbl[i].type < 0 THEN AttitudeLoop(tbl, i + 1, new_beh)
    ELSE AttitudeLoop([tbl EXCEPT ![i] = AttitudeOf(tbl[i], new_beh)], i + 1,
                      LegacyBehaviour(tbl[i].behaviour, new_beh))

\* tag_missing_level_attitude()
tag_missing_level_attitude(tbl) == AttitudeLoop(tbl, 0, BEH_WANDER)

MutTagMissingLenient(tag, tbl) ==
    IF tag \in {TAG_LEVEL_ATTITUDE, TAG_LOST_MONSTERS}
    THEN [menv |-> IF tag = TAG_LEVEL_ATTITUDE
                   THEN tag_missing_level_attitude(tbl) ELSE tbl,
          ended |-> FALSE,
          ran |-> IF tag = TAG_LEVEL_ATTITUDE
                  THEN <<"tag_missing_level_attitude">> ELSE <<>>]
    ELSE [menv |-> tbl, ended |-> TRUE, ran |-> <<>>]

\* tag_missing(tag, minorVersion): recovery for TAG_LEVEL_ATTITUDE, end(-1)
\* for every other tag
tag_missing(tag, tbl) ==
    IF tag = TAG_LEVEL_ATTITUDE
    THEN [menv |-> tag_missing_level_attitude(tbl), ended |-> FALSE,
          ran |-> <<"tag_missing_level_attitude">>]
    ELSE [menv |-> tbl, ended |-> TRUE, ran |-> <<>>]

----------------------------------------------------------------------------
(* Saving and reading back one file *)

\* the builds the framework tells apart: it converts nothing to plain char
LongHosts == {h \in Hosts : h.charSigned}

\* tag IDs handed to tag_construct: below, in and above the known range
ConstructInputs ==
    {-1, TAG_VERSION, TAG_YOU, TAG_LOST_MONSTERS, NUM_TAGS}

Call(op, id, n, start, moved, ret, decoders, overrun, payload) ==
    [op |-> op, id |-> id, n |-> n, start |-> start, moved |-> moved,
     ret |-> ret, decoders |-> decoders, overrun |-> overrun,
     payload |-> payload]

\* tag_construct(th, tagID)
TagConstruct(tagID, n) ==
    LET r == tag_construct(tagBuffer, tagID, n)
    IN  /\ mode = "save"
        /\ status = "running"
        /\ n <= TagBufSize
        /\ th' = r.th
        /\ tagBuffer' = r.buf
        /\ last' = Call("tag_construct", tagID, r.th.offset, Len(stream), 0, 0,
                        Encoders(tagID), FALSE, Slice(r.buf, r.th.offset))
        /\ UNCHANGED <<tt, host, stream, rpos, vlen, mode, status, tags, mi,
                       fileType, menv, written, returned, foreign, fields, outs>>

\* the caller builds the version record by hand: TAG_VERSION with the major
\* and minor version bytes, first in the file
VersionConstruct(major, minor) ==
    /\ mode = "save"
    /\ status = "running"
    /\ stream = <<>>
    /\ th' = [tagID |-> TAG_VERSION, offset |-> 2]
    /\ tagBuffer' = writeBytes(tagBuffer, 0,
                        marshallByte(major) \o marshallByte(minor))
    /\ last' = Call("version", TAG_VERSION, 2, 0, 0, 0, <<>>, FALSE,
                    <<major, minor>>)
    /\ UNCHANGED <<tt, host, stream, rpos, vlen, mode, status, tags, mi, fileType,
                   menv, written, returned, foreign, fields, outs>>

\* tag_write(th, saveFile)
TagWrite ==
    LET r == tag_write(th, tagBuffer)
    IN  /\ mode = "save"
        /\ status = "running"
        /\ last.op \in {"tag_construct", "version"}
        /\ th.tagID = TAG_VERSION => stream = <<>>
        /\ Len(stream) + Len(r.out) <= MaxStream
        /\ stream' = stream \o r.out
        /\ tagBuffer' = r.buf
        /\ th' = r.th
        /\ vlen' = IF th.tagID = TAG_VERSION THEN Len(r.out) ELSE vlen
        /\ written' = IF th.tagID # TAG_VERSION /\ th.offset > 0
                      THEN Append(written, th.tagID) ELSE written
        /\ last' = Call("tag_write", th.tagID, th.offset, Len(stream),
                        Len(r.out), 0, <<>>, FALSE, last.payload)
        /\ UNCHANGED <<tt, host, rpos, mode, status, tags, mi, fileType, menv,
                       returned, foreign, fields, outs>>

\* the caller reopens the file and reads the version bytes itself
OpenForRead ==
    /\ mode = "save"
    /\ status = "running"
    /\ last.op \in {"tag_write", "foreign"}
    /\ mode' = "load"
    /\ rpos' = vlen
    /\ returned' = <<>>
    /\ last' = [NoCall EXCEPT !.op = "open"]
    /\ UNCHANGED <<tt, host, tagBuffer, th, stream, vlen, status, tags, mi,
                   fileType, menv, written, foreign, fields, outs>>

\* one tag_read(fp, minorVersion) of the caller's loop, which ends at the
\* first result 0; tags is left to the caller
TagRead(crash) ==
    LET r == tag_read(tagBuffer, stream, rpos, crash)
    IN  /\ mode = "load"
        /\ status = "running"
        /\ crash => r.crashed
        /\ tagBuffer' = r.buf
        /\ rpos' = r.pos
        /\ status' = IF r.crashed THEN "crashed" ELSE status
        /\ mode' = IF r.ret = 0 /\ ~r.crashed THEN "recover" ELSE mode
        /\ returned' = IF r.ret # 0 THEN Append(returned, r.ret) ELSE returned
        /\ last' = Call("tag_read", r.ret, 0, rpos, r.pos - rpos, r.ret,
                        r.decoders, r.overrun, <<>>)
        /\ UNCHANGED <<tt, host, th, stream, vlen, mi, fileType, menv, written,
                       foreign, fields, outs>>

ReadStep(crash) == TagRead(crash) /\ UNCHANGED tags

InitSave ==
    /\ InitCommon
    /\ host \in LongHosts
    /\ mode = "save"
    /\ tags = [i \in 0 .. NUM_TAGS - 1 |-> 0]
    /\ menv = [i \in 0 .. MaxMonsters - 1 |-> NoMonster]

Next ==
    \/ \E id \in ConstructInputs, n \in 1 .. MaxPayload : TagConstruct(id, n)
    \/ VersionConstruct(4, 1)
    \/ TagWrite
    \/ OpenForRead
    \/ ReadStep(FALSE)

Spec == InitSave /\ [][Next]_vars

\* the header the format stores at position p of the file: a signed 16-bit
\* ID and a signed 32-bit length, both big-endian
HdrAt(p) ==
    [id |-> Wrap16(stream[p + 1] * 256 + stream[p + 2]),
     len |-> [hi |-> Wrap16(stream[p + 3] * 256 + stream[p + 4]),
              lo |-> stream[p + 5] * 256 + stream[p + 6]],
     rest |-> Len(stream) - p - tagHdrSize]

(* C1: tag_write of a record of n > 0 payload bytes appends, for a tag ID
   other than TAG_VERSION, exactly 6 + n bytes: the ID as 2 big-endian bytes,
   n as 4 big-endian bytes, then the payload unchanged and in order; for
   TAG_VERSION it appends exactly the n payload bytes. *)
C1_TagWriteLayout ==
    (last.op = "tag_write" /\ last.n > 0) =>
        LET s0 == last.start
            n == last.n
        IN  IF last.id # TAG_VERSION
            THEN /\ Len(stream) = s0 + 6 + n
                 /\ last.moved = 6 + n
                 /\ stream[s0 + 1] = (last.id % 65536) \div 256
                 /\ stream[s0 + 2] = last.id % 256
                 /\ stream[s0 + 3] = (n \div 16777216) % 256
                 /\ stream[s0 + 4] = (n \div 65536) % 256
                 /\ stream[s0 + 5] = (n \div 256) % 256
                 /\ stream[s0 + 6] = n % 256
                 /\ \A i \in 1 .. n : stream[s0 + 6 + i] = last.payload[i]
            ELSE /\ Len(stream) = s0 + n
                 /\ last.moved = n
                 /\ \A i \in 1 .. n : stream[s0 + i] = last.payload[i]

C1_Witness ==
    /\ last.op = "tag_write"
    /\ last.id = TAG_LOST_MONSTERS
    /\ last.n = 2
    /\ vlen = 2
    /\ stream = <<4, 1, 0, 9, 0, 0, 0, 2, 145, 146>>

(* C3: tag_read called repeatedly on a file of records built by
   tag_construct and appended by tag_write returns the tag IDs of the
   non-empty records in the order they were written, none skipped, repeated
   or reordered, and returns 0 on the first call after the last record. *)
C3_ReadBackInOrder ==
    mode \in {"load", "recover"} =>
        /\ status = "running"
        /\ Len(returned) <= Len(written)
        /\ \A k \in 1 .. Len(returned) : returned[k] = written[k]
        /\ last.op = "tag_read" =>
             IF last.ret = 0
             THEN returned = written /\ mode = "recover"
             ELSE returned[Len(returned)] = last.ret /\ mode = "load"

C3_Witness ==
    /\ mode = "recover"
    /\ last.op = "tag_read"
    /\ last.ret = 0
    /\ returned = <<TAG_LOST_MONSTERS, TAG_YOU>>
    /\ written = returned
    /\ vlen = 2

RECURSIVE NoEmptyHeader(_)
\* every header of the file from position p on stores a length above 0
NoEmptyHeader(p) ==
    \/ p >= Len(stream)
    \/ /\ p + tagHdrSize <= Len(stream)
       /\ HdrAt(p).len.hi = 0
       /\ HdrAt(p).len.lo > 0
       /\ NoEmptyHeader(p + tagHdrSize + HdrAt(p).len.lo)

(* C17: tag_write of a record whose offset is 0 writes no byte at all,
   whatever its tag ID, so that the file never holds a header with the
   length 0. *)
C17_EmptyRecordNotWritten ==
    /\ (last.op = "tag_write" /\ last.n = 0) =>
           last.moved = 0 /\ Len(stream) = last.start
    /\ mode = "save" => NoEmptyHeader(vlen)

C17_Witness ==
    /\ last.op = "tag_write"
    /\ last.n = 0
    /\ last.id = NUM_TAGS
    /\ written = <<TAG_YOU>>
    /\ Len(stream) = vlen + tagHdrSize + 1

(* C26: tag_write leaves the record as it found it: every byte of the
   buffer, the first 6 included, and th.offset are after the call what they
   were before it, for payloads shorter than 6 bytes as well. *)
C26_TagWriteRestores ==
    [][(mode = "save" /\ last.op \in {"tag_construct", "version"}
           /\ last'.op = "tag_write") =>
          /\ tagBuffer' = tagBuffer
          /\ th' = th]_vars

C26_Witness ==
    /\ last.op = "tag_write"
    /\ last.id = TAG_YOU
    /\ last.n = 1
    /\ last.moved = tagHdrSize + 1
    /\ th = [tagID |-> TAG_YOU, offset |-> 1]

(* C18: tag_construct with a tag ID that has no encoder (TAG_VERSION, an ID
   below 0 or one from NUM_TAGS on) sets the record's tagID to that ID and its
   offset to 0, runs no encoder, writes nothing into the buffer, changes no
   aggregate and signals no error. *)
C18_ConstructWithoutEncoder ==
    [][(last'.op = "tag_construct" /\ last'.id \notin KnownTags) =>
          /\ th'.tagID = last'.id
          /\ th'.offset = 0
          /\ last'.decoders = <<>>
          /\ tagBuffer' = tagBuffer
          /\ menv' = menv
          /\ stream' = stream
          /\ status' = "running"]_vars

C18_Witness ==
    /\ last.op = "tag_construct"
    /\ last.id = -1
    /\ th = [tagID |-> -1, offset |-> 0]
    /\ written = <<TAG_LOST_MONSTERS>>
    /\ tagBuffer[0] = 16 * TAG_LOST_MONSTERS + 1
    /\ status = "running"

----------------------------------------------------------------------------
(* Reading a file this program did not write *)

ForeignIDs == -1 .. NUM_TAGS
ForeignLens ==
    {LongOf(-1), LongOf(0), LongOf(1), LongOf(2), LongOf(TagBufSize + 1)}
HeaderCuts == {1, 5, tagHdrSize}
ForeignCounts(len) ==
    IF LongIsPositive(len) THEN {len.lo - 1, len.lo} ELSE {0, TagBufSize + 1}

\* the file holds the first h bytes of a header (id, len) and k payload
\* bytes: a record of another version, a truncated or a damaged file
ForeignRecord(id, len, h, k) ==
    LET hdr == marshallShort(id) \o marshallLong(len)
        bytes == IF h < tagHdrSize THEN SubSeq(hdr, 1, h)
                 ELSE hdr \o [i \in 1 .. k |-> 170]
        good == /\ h = tagHdrSize
                /\ Decoders(id) # <<>>
                /\ LongIsPositive(len)
                /\ len.hi = 0 /\ len.lo = k
    IN  /\ mode = "save"
        /\ status = "running"
        /\ last.op \in {"none", "foreign"}
        /\ last.op = "foreign" => last.ret = 1
        /\ h < tagHdrSize => k = 0
        /\ Len(stream) + Len(bytes) <= MaxStream
        /\ stream' = stream \o bytes
        /\ foreign' = TRUE
        /\ last' = Call("foreign", id, k, Len(stream), Len(bytes),
                        IF good THEN 1 ELSE 0, <<>>, FALSE, <<>>)
        /\ UNCHANGED <<tt, host, tagBuffer, th, rpos, vlen, mode, status, tags, mi,
                       fileType, menv, written, returned, fields, outs>>

NextForeign ==
    \/ \E id \in ForeignIDs, len \in ForeignLens, h \in HeaderCuts :
          \E k \in ForeignCounts(len) \cup {0} : ForeignRecord(id, len, h, k)
    \/ OpenForRead
    \/ \E crash \in BOOLEAN : ReadStep(crash)

SpecForeign == InitSave /\ [][NextForeign]_vars

\* the last call was a tag_read that found a whole record at its position
ReadWholeRecord ==
    /\ last.op = "tag_read"
    /\ Len(stream) - last.start >= tagHdrSize
    /\ HdrAt(last.start).id > 0
    /\ LongIsPositive(HdrAt(last.start).len)
    /\ HdrAt(last.start).len.hi = 0
    /\ HdrAt(last.start).rest >= HdrAt(last.start).len.lo

(* C2: on a complete record with a known tag ID and a positive length L,
   tag_read consumes exactly 6 + L bytes, invokes exactly the decoders
   registered for the ID and returns the ID. *)
C2_KnownRecordRead ==
    (ReadWholeRecord /\ HdrAt(last.start).id \in KnownTags) =>
        /\ status = "running"
        /\ last.ret = HdrAt(last.start).id
        /\ last.moved = tagHdrSize + HdrAt(last.start).len.lo
        /\ last.decoders = Decoders(HdrAt(last.start).id)

(* C4: tag_read returns 0, invokes no decoder and does not abort when fewer
   than 6 header bytes can be read, the header's ID is <= 0, its length is
   <= 0, or fewer payload bytes than declared can be read. *)
C4_NoRecordIsRecoverable ==
    LET h == HdrAt(last.start)
    IN  (/\ last.op = "tag_read"
         /\ \/ Len(stream) - last.start < tagHdrSize
            \/ h.id <= 0
            \/ ~LongIsPositive(h.len)
            \/ h.len.hi > 0
            \/ h.rest < h.len.lo)
        => /\ last.ret = 0
           /\ last.decoders = <<>>
           /\ status = "running"

(* C29: tag_read never stores bytes beyond the size of the buffer allocated
   by the first tag_init call, headers whose declared length exceeds that
   size included. *)
C29_ReadWithinBuffer ==
    last.op = "tag_read" => ~last.overrun /\ status = "running"

(* C5 as claimed: a well-formed record with an unknown tag ID ends in a hard
   failure, never in the result 0 with the process running on. *)
C5_UnknownTagIsFatal ==
    (ReadWholeRecord /\ HdrAt(last.start).id \notin KnownTags) =>
        status # "running"

(* C5 amended: a well-formed record with an unknown tag ID makes tag_read
   signal no hard failure: it never ends the process, invokes no decoder
   and, when it returns, has consumed the 6 + L bytes and returns 0, the
   result of the recoverable "no record" cases. *)
C5_UnknownTagReturnsZero ==
    (ReadWholeRecord /\ HdrAt(last.start).id \notin KnownTags) =>
        /\ status # "ended"
        /\ last.ret = 0
        /\ last.decoders = <<>>
        /\ status = "running" =>
             /\ mode = "recover"
             /\ last.moved = tagHdrSize + HdrAt(last.start).len.lo

C5_Witness ==
    /\ ReadWholeRecord
    /\ HdrAt(last.start).id = NUM_TAGS
    /\ HdrAt(last.start).len = LongOf(2)
    /\ last.start > 0
    /\ status = "running"
    /\ last.ret = 0
    /\ rpos = Len(stream)

----------------------------------------------------------------------------
(* Loading a file: the expectation table, the reads, the missing tags *)

\* a monster saved by a version without TAG_LEVEL_ATTITUDE: legacy code 7
Enslaved ==
    [type |-> 1, created_friendly |-> FALSE, charm |-> FALSE, behaviour |-> 7,
     attitude |-> "ATT_HOSTILE", foe |-> 0, foe_memory |-> 5]

\* the record tag_construct and tag_write make of tag id with one payload byte
RecordOf(id) ==
    LET c == tag_construct([i \in 0 .. TagBufSize - 1 |-> 0], id, 1)
    IN  tag_write(c.th, c.buf).out

\* the file holding one record for each tag of S at or above id, ascending
RECURSIVE FileOf(_, _)
FileOf(S, id) ==
    IF id > TAG_LOST_MONSTERS THEN <<>>
    ELSE (IF id \in S THEN RecordOf(id) ELSE <<>>) \o FileOf(S, id + 1)

\* tag_set_expected(tags, fileType), called before the first tag_read
SetExpected(kind) ==
    /\ mode = "load"
    /\ status = "running"
    /\ last.op = "open"
    /\ tags' = tag_set_expected(tags, kind)
    /\ fileType' = kind
    /\ last' = [NoCall EXCEPT !.op = "tag_set_expected"]
    /\ UNCHANGED <<tt, host, tagBuffer, th, stream, rpos, vlen, mode, status, mi,
                   menv, written, returned, foreign, fields, outs>>

\* the caller's read loop: tag_read, and a tag that was read is marked with
\* a value other than 1
LoadStep ==
    /\ fileType # "none"
    /\ TagRead(FALSE)
    /\ tags' = IF last'.ret # 0 THEN [tags EXCEPT ![last'.ret] = 0] ELSE tags

\* the caller's loop after the reads: tag_missing for each tag still expected
MissingStep ==
    /\ mode = "recover"
    /\ status = "running"
    /\ mi < NUM_TAGS
    /\ IF tags[mi] = 1
       THEN LET r == tag_missing(mi, menv)
            IN  /\ menv' = r.menv
                /\ status' = IF r.ended THEN "ended" ELSE status
                /\ mi' = IF r.ended THEN mi ELSE mi + 1
                /\ last' = Call("tag_missing", mi, 0, rpos, 0,
                                IF r.ended THEN 0 ELSE 1, r.ran, FALSE, <<>>)
       ELSE /\ mi' = mi + 1
            /\ UNCHANGED <<menv, status, last>>
    /\ UNCHANGED <<tt, host, tagBuffer, th, stream, rpos, vlen, mode, tags,
                   fileType, written, returned, foreign, fields, outs>>

InitLoad ==
    /\ tt = MersenneTwister
    /\ host \in LongHosts
    /\ tagBuffer \in FreshBuffers
    /\ th = [tagID |-> 0, offset |-> 0]
    /\ \E S \in SUBSET KnownTags : stream = FileOf(S, TAG_YOU)
    /\ rpos = 0
    /\ vlen = 0
    /\ mode = "load"
    /\ status = "running"
    /\ tags \in {[i \in 0 .. NUM_TAGS - 1 |-> v] : v \in {0, 1}}
    /\ mi = 0
    /\ fileType = "none"
    /\ menv = [i \in 0 .. MaxMonsters - 1 |-> IF i = 0 THEN Enslaved ELSE NoMonster]
    /\ last = [NoCall EXCEPT !.op = "open"]
    /\ written = <<>>
    /\ returned = <<>>
    /\ foreign = FALSE
    /\ fields = <<>>
    /\ outs = <<>>

NextLoad ==
    \/ \E kind \in FileTypes : SetExpected(kind)
    \/ LoadStep
    \/ MissingStep

SpecLoad == InitLoad /\ [][NextLoad]_vars

\* the load went through: every tag was looked at and the process runs on
LoadCompleted == mode = "recover" /\ mi = NUM_TAGS /\ status = "running"

(* C6: tag_missing(TAG_LEVEL_ATTITUDE) runs the attitude recovery and
   returns; tag_missing of any other tag ends the process and never
   returns. So a load whose reads leave an expected tag other than
   TAG_LEVEL_ATTITUDE pending never completes: it ends at that tag. *)
C6_MissingTagIsFatal ==
    /\ last.op = "tag_missing" =>
         IF last.id = TAG_LEVEL_ATTITUDE
         THEN /\ status = "running"
              /\ last.ret = 1
              /\ last.decoders = <<"tag_missing_level_attitude">>
              /\ menv[0].attitude = "ATT_FRIENDLY"
         ELSE /\ status = "ended"
              /\ last.ret = 0
              /\ last.decoders = <<>>
              /\ mi = last.id
    /\ mode = "recover" =>
         \A i \in 0 .. mi - 1 : tags[i] = 1 => i = TAG_LEVEL_ATTITUDE
    /\ LoadCompleted =>
         \A i \in 0 .. NUM_TAGS - 1 : tags[i] = 1 => i = TAG_LEVEL_ATTITUDE

C6_Witness ==
    /\ fileType = "TAGTYPE_PLAYER"
    /\ returned = <<TAG_YOU, TAG_YOU_ITEMS, TAG_YOU_DUNGEON>>
    /\ last.op = "tag_missing"
    /\ last.id = TAG_LOST_MONSTERS
    /\ status = "ended"

\* the tags the claim lists for each file kind
ExpectedTags(kind) ==
    CASE kind = "TAGTYPE_PLAYER" ->
            {TAG_YOU, TAG_YOU_ITEMS, TAG_YOU_DUNGEON, TAG_LOST_MONSTERS}
      [] kind = "TAGTYPE_PLAYER_NAME" -> {TAG_YOU}
      [] kind = "TAGTYPE_LEVEL" ->
            {TAG_LEVEL, TAG_LEVEL_ITEMS, TAG_LEVEL_MONSTERS, TAG_LEVEL_ATTITUDE}
      [] kind = "TAGTYPE_GHOST" -> {TAG_GHOST}
      [] OTHER -> {}

(* C7: after tag_set_expected(tags, kind), whatever tags held before,
   tags[i] is 1 exactly for the tags of the kind's set and -1 for every other
   index of 0..NUM_TAGS-1; an unknown kind expects nothing and TAG_VERSION is
   never expected. *)
C7_ExpectedTable ==
    last.op = "tag_set_expected" =>
        /\ DOMAIN tags = 0 .. NUM_TAGS - 1
        /\ \A i \in 0 .. NUM_TAGS - 1 :
              tags[i] = IF i \in ExpectedTags(fileType) THEN 1 ELSE -1
        /\ tags[TAG_VERSION] = -1

C7_Witness ==
    /\ last.op = "tag_set_expected"
    /\ fileType = "TAGTYPE_LEVEL"
    /\ tags[TAG_GHOST] = -1
    /\ tags[TAG_LEVEL_ATTITUDE] = 1

----------------------------------------------------------------------------
(* Attitude specification: a level file without TAG_LEVEL_ATTITUDE has     *)
(* been read and the caller's loop over the missing tags runs on a monster *)
(* table of an old save.                                                   *)

\* behaviour codes of old saves: those of the switch, and one it leaves alone
LegacyCodes == {0, 1, 3, 6, 7, 10, 4}

\* a slot of the table that holds no monster, with old values left in it
DeadMonster ==
    [type |-> -1, created_friendly |-> TRUE, charm |-> FALSE, behaviour |-> 7,
     attitude |-> "ATT_NEUTRAL", foe |-> 0, foe_memory |-> 5]

\* the monsters of an old save: type >= 0, any flag, enchantment and code
MonsterInputs ==
    {DeadMonster} \cup
    [type : {0}, created_friendly : BOOLEAN, charm : BOOLEAN,
     behaviour : LegacyCodes, attitude : {"ATT_NEUTRAL"}, foe : {0},
     foe_memory : {5}]

InitAttitude ==
    /\ tt = MersenneTwister
    /\ host \in LongHosts
    /\ tagBuffer = [i \in 0 .. TagBufSize - 1 |-> 0]
    /\ th = [tagID |-> 0, offset |-> 0]
    /\ stream = <<>>
    /\ rpos = 0
    /\ vlen = 0
    /\ mode = "recover"
    /\ status = "running"
    /\ tags = [i \in 0 .. NUM_TAGS - 1 |->
                 IF i = TAG_LEVEL_ATTITUDE THEN 1
                 ELSE IF i \in {TAG_LEVEL, TAG_LEVEL_ITEMS, TAG_LEVEL_MONSTERS}
                 THEN 0 ELSE -1]
    /\ mi = TAG_LEVEL_ATTITUDE
    /\ fileType = "TAGTYPE_LEVEL"
    /\ menv \in [0 .. MaxMonsters - 1 -> MonsterInputs]
    /\ last = [NoCall EXCEPT !.op = "tag_read"]
    /\ written = <<>>
    /\ returned = <<TAG_LEVEL, TAG_LEVEL_ITEMS, TAG_LEVEL_MONSTERS>>
    /\ foreign = FALSE
    /\ fields = <<>>
    /\ outs = <<>>

NextAttitude == MissingStep

SpecAttitude == InitAttitude /\ [][NextAttitude]_vars

(* C19: tag_missing_level_attitude gives every monster of type >= 0 the foe
   MHITNOT, the foe memory 0, the attitude ATT_FRIENDLY when
   MF_CREATED_FRIENDLY is set or its old behaviour is 7 without ENCH_CHARM and
   ATT_HOSTILE otherwise (never neutral), and the behaviour BEH_SLEEP for the
   old code 0, BEH_FLEE for 3 and 10, BEH_SEEK for 1 and 6; a slot of type < 0
   is left as it was. *)
C19_AttitudeRecovery ==
    [][(mi = TAG_LEVEL_ATTITUDE /\ tags[mi] = 1 /\ mi' = mi + 1) =>
          \A i \in 0 .. MaxMonsters - 1 :
              LET m == menv[i]
                  r == menv'[i]
              IN  IF m.type < 0
                  THEN r = m
                  ELSE /\ r.type = m.type
                       /\ r.foe = MHITNOT
                       /\ r.foe_memory = 0
                       /\ r.attitude =
                            IF m.created_friendly \/ (m.behaviour = 7 /\ ~m.charm)
                            THEN "ATT_FRIENDLY" ELSE "ATT_HOSTILE"
                       /\ m.behaviour = 0 => r.behaviour = BEH_SLEEP
                       /\ m.behaviour \in {3, 10} => r.behaviour = BEH_FLEE
                       /\ m.behaviour \in {1, 6} => r.behaviour = BEH_SEEK]_vars

C19_Witness ==
    /\ last.op = "tag_missing"
    /\ last.id = TAG_LEVEL_ATTITUDE
    /\ menv[0] = DeadMonster
    /\ menv[1].type = 0
    /\ menv[1].charm /\ ~menv[1].created_friendly
    /\ menv[1].attitude = "ATT_HOSTILE"
    /\ menv[1].behaviour = BEH_FLEE
    /\ menv[1].foe = MHITNOT
    /\ menv[1].foe_memory = 0

\* C25: the behaviour tag_missing_level_attitude assigns depends on the
\* monster's own state only; a monster whose old behaviour is none of 0, 1,
\* 3, 6, 10 always gets BEH_WANDER.
C25_DefaultBehaviourWander ==
    [][(mi = TAG_LEVEL_ATTITUDE /\ tags[mi] = 1 /\ mi' = mi + 1) =>
          \A i \in 0 .. MaxMonsters - 1 :
              (menv[i].type >= 0 /\ menv[i].behaviour \notin {0, 1, 3, 6, 10}) =>
                  menv'[i].behaviour = BEH_WANDER]_vars

----------------------------------------------------------------------------
(* Ghost specification: a ghost stored by this build or by a build with    *)
(* another number of ghost values, with a short after it, is read back by  *)
(* unmarshallGhost.                                                        *)

\* bytes of a buffer that holds the largest stored ghost and the short
GhostBufSize == 2 + MaxStrLen + 1 + 2 * MaxGhostCount + 2

GhostNames == {<<>>, <<CharAt(1)>>}

\* the ghosts of this build handed to marshallGhost
GhostInputs ==
    {[name |-> nm, values |-> [i \in 0 .. NUM_GHOST_VALUES - 1 |-> b + i]] :
        nm \in GhostNames, b \in {-3, 300}}

\* the counts of values of the builds that stored a ghost
GhostCounts ==
    {0, 1, NUM_GHOST_VALUES - 1, NUM_GHOST_VALUES + 1, MaxGhostCount}

\* the i-th value of a ghost stored by another build
OtherValue(i) == 500 + i

\* bytes bs marshalled at the cursor of the ghost record, recorded as field f
GhostMarshalled(f, bs) ==
    /\ mode = "write"
    /\ Len(fields) < MaxFields
    /\ th.offset + Len(bs) <= GhostBufSize
    /\ tagBuffer' = writeBytes(tagBuffer, th.offset, bs)
    /\ th' = [th EXCEPT !.offset = th.offset + Len(bs)]
    /\ fields' = Append(fields, f)
    /\ UNCHANGED <<tt, host, stream, rpos, vlen, mode, status, tags, mi, fileType, menv,
                   last, written, returned, foreign, outs>>

\* this build's marshallGhost(th, ghost)
DoMarshallGhost(ghost) ==
    /\ fields = <<>>
    /\ GhostMarshalled(FieldOf("ghost",
                               [name |-> ghost.name, count |-> NUM_GHOST_VALUES,
                                values |-> ghost.values],
                               th.offset),
                       marshallGhost(ghost))

\* marshallGhost of a build whose NUM_GHOST_VALUES is c
DoMarshallOtherGhost(nm, c) ==
    /\ fields = <<>>
    /\ GhostMarshalled(FieldOf("ghost",
                               [name |-> nm, count |-> c,
                                values |-> [i \in 0 .. c - 1 |-> OtherValue(i)]],
                               th.offset),
                       marshallString(nm, GhostNameSize)
                       \o marshallByte(ToChar(c))
                       \o [j \in 1 .. 2 * c |->
                             marshallShort(ToShort(OtherValue((j - 1) \div 2)))
                                 [((j - 1) % 2) + 1]])

\* the encoder's marshallShort(th, v) after the ghost
DoMarshallAfterGhost(v) ==
    /\ fields # <<>>
    /\ GhostMarshalled(Field("short", v, LongOf(0), th.offset),
                       marshallShort(ToShort(v)))

\* a decoder's unmarshallGhost(th)
DoUnmarshallGhost ==
    LET r == unmarshallGhost(tagBuffer, th.offset)
    IN  UnmarshalledAs("ghost",
                       FieldOf("ghost",
                               [name |-> r.ghost.name, values |-> r.ghost.values,
                                stored |-> r.stored],
                               th.offset),
                       r.offset - th.offset)

\* the ghost lists handed to tag_construct_ghost
GhostLists ==
    {<<>>} \cup {<<g>> : g \in GhostInputs}
    \cup {<<g, h>> : g \in GhostInputs, h \in {x \in GhostInputs : x.name = <<>>}}
    \cup {[i \in 1 .. MAX_GHOSTS |-> g] : g \in GhostInputs}

\* what the global list may hold when a ghost file is read
PriorGhosts == {<<>>, <<FreshGhost>>}

\* tag_construct_ghost(th) with the global list holding list
DoConstructGhost(list) ==
    /\ fields = <<>>
    /\ GhostMarshalled(FieldOf("ghosts", list, th.offset),
                       tag_construct_ghost(list))

\* tag_read_ghost(th, minorVersion) with the global list holding prior
DoReadGhost(prior) ==
    LET r == tag_read_ghost(tagBuffer, th.offset, prior)
    IN  UnmarshalledAs("ghosts",
                       FieldOf("ghosts", [before |-> prior, after |-> r.ghosts],
                               th.offset),
                       r.offset - th.offset)

InitGhost ==
    /\ tt = MersenneTwister
    /\ host \in StringHosts
    /\ tagBuffer \in {[i \in 0 .. GhostBufSize - 1 |-> f] : f \in {0, 255}}
    /\ th = [tagID |-> 0, offset |-> 0]
    /\ stream = <<>>
    /\ rpos = 0
    /\ vlen = 0
    /\ mode = "write"
    /\ status = "running"
    /\ tags = [i \in 0 .. NUM_TAGS - 1 |-> 0]
    /\ mi = 0
    /\ fileType = "none"
    /\ menv = [i \in 0 .. MaxMonsters - 1 |-> NoMonster]
    /\ last = NoCall
    /\ written = <<>>
    /\ returned = <<>>
    /\ foreign = FALSE
    /\ fields = <<>>
    /\ outs = <<>>

NextGhost ==
    \/ \E ghost \in GhostInputs : DoMarshallGhost(ghost)
    \/ \E nm \in GhostNames, c \in GhostCounts : DoMarshallOtherGhost(nm, c)
    \/ \E v \in GuardInputs : DoMarshallAfterGhost(v)
    \/ BeginDecode
    \/ DoUnmarshallGhost
    \/ DoUnmarshallShort
    \/ \E list \in GhostLists : DoConstructGhost(list)
    \/ \E prior \in PriorGhosts : DoReadGhost(prior)

SpecGhost == InitGhost /\ [][NextGhost]_vars

(* C20: unmarshallGhost never stores at an index of NUM_GHOST_VALUES or
   above: for a stored count above NUM_GHOST_VALUES exactly the first
   NUM_GHOST_VALUES values are stored, and for a stored count c below it
   exactly values[0 .. c-1] are overwritten and the others keep the defaults
   of a fresh ghost. *)
C20_GhostValuesClamped ==
    \A k \in 1 .. Len(outs) :
        fields[k].kind = "ghost" =>
            LET c == fields[k].v.count
                n == Min(c, NUM_GHOST_VALUES)
            IN  /\ outs[k].v.stored \subseteq 0 .. NUM_GHOST_VALUES - 1
                /\ outs[k].v.stored = 0 .. n - 1
                /\ \A i \in 0 .. NUM_GHOST_VALUES - 1 :
                      outs[k].v.values[i] =
                          IF i < n THEN fields[k].v.values[i]
                          ELSE FreshGhost.values[i]

\* C24: after unmarshallGhost has decoded a ghost stored with a count c above
\* NUM_GHOST_VALUES the cursor stands just past all c stored values, 2 + name
\* length + 1 + 2 * c bytes after the start of the ghost, so that what is
\* stored after the ghost is decoded from its own first byte.
C24_CursorPastGhost ==
    (outs # <<>> /\ fields[1].kind = "ghost"
        /\ fields[1].v.count > NUM_GHOST_VALUES) =>
        /\ OutEnd(1) = fields[1].off + 2 + Len(fields[1].v.name) + 1
                           + 2 * fields[1].v.count
        /\ Len(outs) = 2 => outs[2].i = fields[2].i

\* C27: for every ghost list G of 0 .. MAX_GHOSTS entries, and whatever the
\* global ghost list holds when reading starts, TAG_GHOST constructed from G
\* and decoded by tag_read_ghost leaves the global list equal to G.
C27_GhostListRoundTrip ==
    (outs # <<>> /\ outs[1].kind = "ghosts") => outs[1].v.after = fields[1].v

\* a ghost file read into an empty global list leaves the list stored
EmptyListRoundTrip ==
    (outs # <<>> /\ outs[1].kind = "ghosts" /\ outs[1].v.before = <<>>) =>
        outs[1].v.after = fields[1].v

----------------------------------------------------------------------------
(* Count-prefixed arrays: the attitude block of the monsters, the traps    *)
(* of a level and the equipment of the player.                             *)

\* enum mon_attitude_type as the byte marshallByte stores
AttitudeNames == <<"ATT_HOSTILE", "ATT_FRIENDLY", "ATT_NEUTRAL">>
AttitudeCode(a) == CHOOSE c \in 0 .. 2 : AttitudeNames[c + 1] = a
AttitudeOfCode(c) == AttitudeNames[(c % 3) + 1]

\* tag_construct_level_attitude of a build whose MAX_MONSTERS is Len(tbl):
\* the count as a short, then attitude byte and foe short of every monster
tag_construct_level_attitude(tbl) ==
    marshallShort(ToShort(Len(tbl)))
    \o [j \in 1 .. 3 * Len(tbl) |->
          LET m == tbl[((j - 1) \div 3) + 1]
              bs == marshallByte(ToChar(AttitudeCode(m.attitude)))
                    \o marshallShort(ToShort(m.foe))
          IN  bs[((j - 1) % 3) + 1]]

\* tag_read_level_attitude(th): the table it leaves, the indexes it stored
\* at and the cursor
\* (variant: the loop runs over the whole table)
MutTagReadLevelAttitude(buf, off, tbl) ==
    LET n == MaxMonsters
    IN  [menv |-> [i \in DOMAIN tbl |->
                      [tbl[i] EXCEPT
                          !.attitude = AttitudeOfCode(
                                           unmarshallByte(buf, off + 2 + 3 * i)),
                          !.foe = unmarshallShort(buf, off + 2 + 3 * i + 1)]],
         stored |-> 0 .. n - 1,
         offset |-> off + 2 + 3 * n]

tag_read_level_attitude(buf, off, tbl) ==
    LET count == unmarshallShort(buf, off)
        n == LoopCount(count)
    IN  [menv |-> [i \in DOMAIN tbl |->
                     IF i < n
                     THEN [tbl[i] EXCEPT
                             !.attitude =
                                 AttitudeOfCode(unmarshallByte(buf, off + 2 + 3 * i)),
                             !.foe = unmarshallShort(buf, off + 2 + 3 * i + 1)]
                     ELSE tbl[i]],
         stored |-> 0 .. n - 1,
         offset |-> off + 2 + 3 * n]

\* the head of tag_construct_level_items of a build whose MAX_TRAPS is
\* Len(traps): the count as a short, then type, x and y of every trap
tag_construct_level_items(traps) ==
    marshallShort(ToShort(Len(traps)))
    \o [j \in 1 .. 3 * Len(traps) |->
          LET t == traps[((j - 1) \div 3) + 1]
              bs == marshallByte(ToChar(t.type)) \o marshallByte(ToChar(t.x))
                    \o marshallByte(ToChar(t.y))
          IN  bs[((j - 1) % 3) + 1]]

\* the trap loop of tag_read_level_items(th, minorVersion)
tag_read_level_items(buf, off, traps) ==
    LET trap_count == unmarshallShort(buf, off)
        n == LoopCount(trap_count)
    IN  [trap |-> [i \in DOMAIN traps |->
                     IF i < n
                     THEN [type |-> ToUChar(unmarshallByte(buf, off + 2 + 3 * i)),
                           x |-> unmarshallByte(buf, off + 2 + 3 * i + 1),
                           y |-> unmarshallByte(buf, off + 2 + 3 * i + 2)]
                     ELSE traps[i]],
         stored |-> 0 .. n - 1,
         offset |-> off + 2 + 3 * n]

\* the equipment of tag_construct_you of a build whose NUM_EQUIP is
\* Len(equip): the count as a byte, then a byte per slot
tag_construct_you_equip(equip) ==
    marshallByte(ToChar(Len(equip)))
    \o [j \in 1 .. Len(equip) |-> marshallByte(ToChar(equip[j]))[1]]

\* the equipment loop of tag_read_you: char count_c
tag_read_you_equip(buf, off, equip) ==
    LET count_c == unmarshallByte(buf, off)
        n == LoopCount(count_c)
    IN  [equip |-> [i \in DOMAIN equip |->
                      IF i < n THEN unmarshallByte(buf, off + 1 + i) ELSE equip[i]],
         stored |-> 0 .. n - 1,
         offset |-> off + 1 + n]

\* bytes of a buffer that holds the largest of these arrays and a short
ArrayBufSize == 2 + 3 * (MaxMonsters + MAX_TRAPS + NUM_EQUIP + 1) + 2

\* the arrays of a storing build with c entries
StoredMonsters(c) ==
    [i \in 1 .. c |-> [attitude |-> AttitudeNames[(i % 3) + 1], foe |-> 100 + i]]
StoredTraps(c) == [i \in 1 .. c |-> [type |-> 130 + i, x |-> 10 + i, y |-> 20 + i]]
StoredEquip(c) == [i \in 1 .. c |-> 40 + i]

\* what the arrays of the reading build hold before the record is read
StaleMonster ==
    [type |-> 0, created_friendly |-> FALSE, charm |-> FALSE, behaviour |-> 0,
     attitude |-> "ATT_NEUTRAL", foe |-> 7, foe_memory |-> 5]
StaleTraps == [i \in 0 .. MAX_TRAPS - 1 |-> [type |-> 100, x |-> 1, y |-> 1]]
StaleEquip == [i \in 0 .. NUM_EQUIP - 1 |-> -1]

\* bytes bs of an array marshalled at the cursor, recorded as field f
ArrayMarshalled(f, bs) ==
    /\ mode = "write"
    /\ Len(fields) < MaxFields
    /\ th.offset + Len(bs) <= ArrayBufSize
    /\ tagBuffer' = writeBytes(tagBuffer, th.offset, bs)
    /\ th' = [th EXCEPT !.offset = th.offset + Len(bs)]
    /\ fields' = Append(fields, f)
    /\ UNCHANGED <<tt, host, stream, rpos, vlen, mode, status, tags, mi, fileType, menv,
                   last, written, returned, foreign, outs>>

\* tag_construct_level_attitude of a build with c monsters
DoConstructAttitude(c) ==
    /\ fields = <<>>
    /\ ArrayMarshalled(FieldOf("attitude", StoredMonsters(c), th.offset),
                       tag_construct_level_attitude(StoredMonsters(c)))

\* the traps of tag_construct_level_items of a build with c traps
DoConstructTraps(c) ==
    /\ fields = <<>>
    /\ ArrayMarshalled(FieldOf("traps", StoredTraps(c), th.offset),
                       tag_construct_level_items(StoredTraps(c)))

\* the equipment of tag_construct_you of a build with c slots
DoConstructEquip(c) ==
    /\ fields = <<>>
    /\ ArrayMarshalled(FieldOf("equip", StoredEquip(c), th.offset),
                       tag_construct_you_equip(StoredEquip(c)))

\* the encoder's marshallShort(th, v) after the array
DoMarshallAfterArray(v) ==
    /\ fields # <<>>
    /\ ArrayMarshalled(Field("short", v, LongOf(0), th.offset),
                       marshallShort(ToShort(v)))

\* a decoder ran on the array stored as kind: it stored at the indexes
\* stored of an array of capacity cap, which held before and holds after,
\* and left the cursor at offset. A store outside the array is undefined:
\* crash says whether the build ends the process there.
ArrayRead(kind, cap, before, after, stored, offset, crash) ==
    /\ mode = "read"
    /\ status = "running"
    /\ outs = <<>>
    /\ fields # <<>>
    /\ fields[1].kind = kind
    /\ crash => ~(stored \subseteq 0 .. cap - 1)
    /\ status' = IF crash THEN "crashed" ELSE status
    /\ outs' = Append(outs, FieldOf(kind,
                                    [cap |-> cap, before |-> before,
                                     after |-> after, stored |-> stored],
                                    th.offset))
    /\ th' = [th EXCEPT !.offset = offset]
    /\ UNCHANGED <<tt, host, tagBuffer, stream, rpos, vlen, mode, tags, mi, fileType,
                   last, written, returned, foreign, fields>>

\* tag_read_level_attitude(th) on the monster table
DoReadLevelAttitude(crash) ==
    LET r == tag_read_level_attitude(tagBuffer, th.offset, menv)
    IN  /\ ArrayRead("attitude", MaxMonsters, menv, r.menv, r.stored, r.offset,
                     crash)
        /\ menv' = r.menv

\* the trap loop of tag_read_level_items(th, minorVersion)
DoReadLevelItems(crash) ==
    LET r == tag_read_level_items(tagBuffer, th.offset, StaleTraps)
    IN  /\ ArrayRead("traps", MAX_TRAPS, StaleTraps, r.trap, r.stored, r.offset,
                     crash)
        /\ UNCHANGED menv

\* the equipment loop of tag_read_you(th, minorVersion)
DoReadYouEquip(crash) ==
    LET r == tag_read_you_equip(tagBuffer, th.offset, StaleEquip)
    IN  /\ ArrayRead("equip", NUM_EQUIP, StaleEquip, r.equip, r.stored, r.offset,
                     crash)
        /\ UNCHANGED menv

\* the decoder's unmarshallShort(th) after the array
DoUnmarshallAfterArray ==
    /\ status = "running"
    /\ DoUnmarshallShort

InitArray ==
    /\ tt = MersenneTwister
    /\ host \in StringHosts
    /\ tagBuffer \in {[i \in 0 .. ArrayBufSize - 1 |-> f] : f \in {0, 255}}
    /\ th = [tagID |-> 0, offset |-> 0]
    /\ stream = <<>>
    /\ rpos = 0
    /\ vlen = 0
    /\ mode = "write"
    /\ status = "running"
    /\ tags = [i \in 0 .. NUM_TAGS - 1 |-> 0]
    /\ mi = 0
    /\ fileType = "none"
    /\ menv = [i \in 0 .. MaxMonsters - 1 |-> StaleMonster]
    /\ last = NoCall
    /\ written = <<>>
    /\ returned = <<>>
    /\ foreign = FALSE
    /\ fields = <<>>
    /\ outs = <<>>

NextArray ==
    \/ \E c \in 0 .. MaxMonsters + 1 : DoConstructAttitude(c)
    \/ \E c \in 0 .. MAX_TRAPS + 1 : DoConstructTraps(c)
    \/ \E c \in 0 .. NUM_EQUIP + 1 : DoConstructEquip(c)
    \/ \E v \in GuardInputs : DoMarshallAfterArray(v)
    \/ BeginDecode
    \/ \E crash \in BOOLEAN : DoReadLevelAttitude(crash)
    \/ \E crash \in BOOLEAN : DoReadLevelItems(crash)
    \/ \E crash \in BOOLEAN : DoReadYouEquip(crash)
    \/ DoUnmarshallAfterArray

SpecArray == InitArray /\ [][NextArray]_vars

\* the entry i of the array a decoder leaves, as the record stores the
\* entry e over the entry old
EntryRead(kind, e, old) ==
    IF kind = "attitude" THEN [old EXCEPT !.attitude = e.attitude, !.foe = e.foe]
    ELSE e

\* C21: a count-prefixed array stored with a count c below the capacity of
\* the reading build (the attitude block, the traps, the equipment) is
\* decoded without error: entries 0 .. c-1 take the stored values, entries
\* c .. capacity-1 keep what they held, and the cursor stands at the end of
\* the bytes written, so that a short stored after the array reads back.
C21_ShortArrayRead ==
    (outs # <<>> /\ outs[1].kind \in {"attitude", "traps", "equip"}
        /\ Len(fields[1].v) < outs[1].v.cap) =>
        LET c == Len(fields[1].v)
            o == outs[1].v
        IN  /\ status = "running"
            /\ o.stored = 0 .. c - 1
            /\ \A i \in 0 .. o.cap - 1 :
                   o.after[i] = IF i < c
                                THEN EntryRead(outs[1].kind, fields[1].v[i + 1],
                                               o.before[i])
                                ELSE o.before[i]
            /\ outs[1].kind = "attitude" => menv = o.after
            /\ OutEnd(1) = fields[1].off
                              + (IF outs[1].kind = "equip" THEN 1 + c ELSE 2 + 3 * c)
            /\ Len(fields) = 2 => OutEnd(1) = fields[2].off
            /\ Len(outs) = 2 => outs[2].i = fields[2].i

C21_Witness ==
    /\ Len(outs) = 2
    /\ outs[1].kind = "attitude"
    /\ Len(fields[1].v) = MaxMonsters - 1
    /\ menv[0].foe = 101
    /\ menv[MaxMonsters - 1] = StaleMonster
    /\ outs[2].i = 258

\* C23: a decoder never stores an element at an index at or beyond the
\* capacity of its array, whatever count the record holds.
C23_NoStoreBeyondCapacity ==
    /\ status = "running"
    /\ \A k \in 1 .. Len(outs) :
           outs[k].kind \in {"attitude", "traps", "equip"} =>
               outs[k].v.stored \subseteq 0 .. outs[k].v.cap - 1

-----------------------------------------------------------------------------
(* Level grids: the part of the TAG_LEVEL record from the stored dimensions
   to cloud_no, written by a build with grids of gx by gy cells and read by
   the build with grids of GXM by GYM cells *)

BLACK == 0

\* the bytes of one cell: grd, then object, colour, flags of env.map, cgrid
MarshallCell(c) ==
    marshallByte(ToChar(c.grd)) \o marshallShort(ToShort(c.object))
    \o marshallShort(ToShort(c.colour)) \o marshallShort(ToShort(c.flags))
    \o marshallShort(ToShort(c.cgrid))

\* the cell decoded at off
UnmarshallCell(buf, off) ==
    [grd |-> ToUChar(unmarshallByte(buf, off)),
     object |-> unmarshallShort(buf, off + 1),
     colour |-> unmarshallShort(buf, off + 3),
     flags |-> unmarshallShort(buf, off + 5),
     cgrid |-> unmarshallShort(buf, off + 7) % 65536]

\* tag_construct_level from marshallShort(th, GXM) to env.cloud_no, in a
\* build whose GXM, GYM are lev.gx, lev.gy
tag_construct_level_grids(lev) ==
    marshallShort(ToShort(lev.gx)) \o marshallShort(ToShort(lev.gy))
    \o marshallLong(lev.turns_on_level)
    \o [j \in 1 .. 9 * lev.gx * lev.gy |->
           LET idx == (j - 1) \div 9
           IN  MarshallCell(lev.cells[idx \div lev.gy][idx % lev.gy])
                   [((j - 1) % 9) + 1]]
    \o run_length_encode(lev.grid_colours, lev.gx, lev.gy)
    \o marshallShort(ToShort(lev.cloud_no))

\* tag_read_level from gx = unmarshallShort(th) to env.cloud_no, over the
\* cells the level holds: the cell loops run to the stored gx, gy, the
\* colours are decoded for GXM by GYM cells; a store at a cell outside the
\* grids sets overrun
tag_read_level_grids(buf, off, cells) ==
    LET gx == LoopCount(unmarshallShort(buf, off))
        gy == LoopCount(unmarshallShort(buf, off + 2))
        d == run_length_decode(buf, off + 8 + 9 * gx * gy,
                               [x \in 0 .. GXM - 1 |-> [y \in 0 .. GYM - 1 |-> BLACK]],
                               GXM, GYM)
    IN  [gx |-> gx, gy |-> gy,
         turns_on_level |-> unmarshallLong(buf, off + 4),
         cells |-> [i \in 0 .. GXM - 1 |-> [j \in 0 .. GYM - 1 |->
                      IF i < gx /\ j < gy
                      THEN UnmarshallCell(buf, off + 8 + 9 * (i * gy + j))
                      ELSE cells[i][j]]],
         grid_colours |-> d.g,
         cloud_no |-> unmarshallShort(buf, d.offset),
         overrun |-> d.overrun \/ (gx > GXM /\ gy > 0) \/ (gy > GYM /\ gx > 0),
         offset |-> d.offset + 2]

\* bytes of a buffer that holds the largest level record, and what a decoder
\* of GXM by GYM colours reads after it
LevelBufSize == 8 + 11 * (GXM + 1) * (GYM + 1) + 2 + 2 * GXM * GYM + 4

\* dimensions of the builds that stored the level
LevelDims == {<<GXM, GYM>>, <<GXM - 1, GYM>>, <<GXM, GYM - 1>>, <<GXM + 1, GYM>>}

\* the levels of a build of gx by gy cells
LevelInputs(gx, gy) ==
    {[gx |-> gx, gy |-> gy, turns_on_level |-> LongOf(70000),
      cells |-> [x \in 0 .. gx - 1 |-> [y \in 0 .. gy - 1 |->
                   [grd |-> 130 + x * gy + y, object |-> 300 + x, colour |-> y,
                    flags |-> 0, cgrid |-> 65535]]],
      grid_colours |-> [x \in 0 .. gx - 1 |-> [y \in 0 .. gy - 1 |->
                          IF uniform THEN 4 ELSE 1 + x + y * gx]],
      cloud_no |-> n] : uniform \in BOOLEAN, n \in {0, 517}}

\* what the cells of the reading build hold before the record is read
StaleCells ==
    [x \in 0 .. GXM - 1 |-> [y \in 0 .. GYM - 1 |->
        [grd |-> 1, object |-> 0, colour |-> 0, flags |-> 0, cgrid |-> 0]]]

\* tag_construct_level of a build that holds lev
DoConstructLevel(lev) ==
    /\ mode = "write"
    /\ fields = <<>>
    /\ LET bs == tag_construct_level_grids(lev)
       IN  /\ th.offset + Len(bs) <= LevelBufSize
           /\ tagBuffer' = writeBytes(tagBuffer, th.offset, bs)
           /\ th' = [th EXCEPT !.offset = th.offset + Len(bs)]
    /\ fields' = Append(fields, FieldOf("level", lev, th.offset))
    /\ UNCHANGED <<tt, host, stream, rpos, vlen, mode, status, tags, mi, fileType, menv,
                   last, written, returned, foreign, outs>>

\* tag_read_level(th, minorVersion); a store outside the grids is undefined:
\* crash says whether the build ends the process there
DoReadLevel(crash) ==
    /\ mode = "read"
    /\ status = "running"
    /\ outs = <<>>
    /\ fields # <<>>
    /\ LET r == tag_read_level_grids(tagBuffer, th.offset, StaleCells)
       IN  /\ crash => r.overrun
           /\ status' = IF crash THEN "crashed" ELSE status
           /\ outs' = Append(outs, FieldOf("level", r, th.offset))
           /\ th' = [th EXCEPT !.offset = r.offset]
    /\ UNCHANGED <<tt, host, tagBuffer, stream, rpos, vlen, mode, tags, mi, fileType,
                   menv, last, written, returned, foreign, fields>>

InitLevel ==
    /\ tt = MersenneTwister
    /\ host \in StringHosts
    /\ tagBuffer \in {[i \in 0 .. LevelBufSize - 1 |-> f] : f \in {1, 255}}
    /\ th = [tagID |-> TAG_LEVEL, offset |-> 0]
    /\ stream = <<>>
    /\ rpos = 0
    /\ vlen = 0
    /\ mode = "write"
    /\ status = "running"
    /\ tags = [i \in 0 .. NUM_TAGS - 1 |-> 0]
    /\ mi = 0
    /\ fileType = "none"
    /\ menv = [i \in 0 .. MaxMonsters - 1 |-> NoMonster]
    /\ last = NoCall
    /\ written = <<>>
    /\ returned = <<>>
    /\ foreign = FALSE
    /\ fields = <<>>
    /\ outs = <<>>

NextLevel ==
    \/ \E d \in LevelDims : \E lev \in LevelInputs(d[1], d[2]) : DoConstructLevel(lev)
    \/ BeginDecode
    \/ \E crash \in BOOLEAN : DoReadLevel(crash)

SpecLevel == InitLevel /\ [][NextLevel]_vars

\* C22: tag_read_level decodes every grid-shaped field with the dimensions
\* stored in the record, so a record of other dimensions is consumed byte
\* for byte and the fields after the grids (here cloud_no) decode to the
\* values written.
C22_StoredDimensionsUsed ==
    (outs # <<>> /\ outs[1].kind = "level"
        /\ fields[1].v.gx <= GXM /\ fields[1].v.gy <= GYM) =>
        /\ status = "running"
        /\ outs[1].v.cloud_no = fields[1].v.cloud_no
        /\ th.offset = fields[1].off + Len(tag_construct_level_grids(fields[1].v))
        /\ \A x \in 0 .. fields[1].v.gx - 1 : \A y \in 0 .. fields[1].v.gy - 1 :
               /\ outs[1].v.cells[x][y] = fields[1].v.cells[x][y]
               /\ outs[1].v.grid_colours[x][y] = fields[1].v.grid_colours[x][y]

\* a record of the reading build's own dimensions is read back as written
SameDimensionsRead ==
    (outs # <<>> /\ outs[1].kind = "level"
        /\ fields[1].v.gx = GXM /\ fields[1].v.gy = GYM) =>
        /\ status = "running"
        /\ outs[1].v.cloud_no = fields[1].v.cloud_no
        /\ outs[1].v.cells = fields[1].v.cells
        /\ outs[1].v.grid_colours = fields[1].v.grid_colours

-----------------------------------------------------------------------------
(* Maps: a std::map with keys and values marshalled as longs, as            *)
(* stair_level of tag_construct_you_dungeon is, read into a map that holds  *)
(* entries already. A map is the function from its keys to their values.    *)

\* the long l as a number
LongValue(l) == l.hi * 65536 + l.lo

EmptyMap == [k \in {} |-> 0]

RECURSIVE MarshallEntries(_, _)
\* for (ci = data.begin(); ci != data.end(); ++ci): the entries in the order
\* of their keys, from the key k on
MarshallEntries(data, k) ==
    IF k > MaxKey THEN <<>>
    ELSE (IF k \in DOMAIN data
          THEN marshallLong(LongOf(k)) \o marshallLong(LongOf(data[k]))
          ELSE <<>>) \o MarshallEntries(data, k + 1)

\* marshallMap(th, data, marshall_as_long, marshall_as_long)
marshallMap(data) ==
    marshallLong(LongOf(Cardinality(DOMAIN data))) \o MarshallEntries(data, 1)

\* data.insert(p): an entry whose key the map holds already is not stored
MapInsert(data, k, v) ==
    IF k \in DOMAIN data THEN data ELSE (k :> v) @@ data

RECURSIVE UnmarshallEntries(_, _, _, _, _)
\* for (i ...; i < len; ++i) of unmarshallMap
UnmarshallEntries(buf, off, data, i, len) ==
    IF i >= len THEN [data |-> data, offset |-> off]
    ELSE LET k == LongValue(unmarshallLong(buf, off))
             v == LongValue(unmarshallLong(buf, off + 4))
         IN  UnmarshallEntries(buf, off + 8, MapInsert(data, k, v), i + 1, len)

\* unmarshallMap(th, data, unmarshall_long_as, unmarshall_long_as)
unmarshallMap(buf, off, data) ==
    UnmarshallEntries(buf, off + 4, data, 0, LongValue(unmarshallLong(buf, off)))

\* bytes of a buffer that holds the largest map
MapBufSize == 4 + 8 * MaxKey

\* the maps handed to marshallMap
MapInputs ==
    UNION {[keys -> {10, 20}] : keys \in SUBSET (1 .. MaxKey)}

\* what the destination map may hold when unmarshallMap is called
PriorMaps == {EmptyMap, (1 :> 99), (MaxKey :> 98) @@ (MaxKey + 1 :> 97)}

\* an encoder's marshallMap(th, data, ...)
DoMarshallMap(data) ==
    /\ mode = "write"
    /\ fields = <<>>
    /\ LET bs == marshallMap(data)
       IN  /\ th.offset + Len(bs) <= MapBufSize
           /\ tagBuffer' = writeBytes(tagBuffer, th.offset, bs)
           /\ th' = [th EXCEPT !.offset = th.offset + Len(bs)]
    /\ fields' = Append(fields, FieldOf("map", data, th.offset))
    /\ UNCHANGED <<tt, host, stream, rpos, vlen, mode, status, tags, mi, fileType, menv,
                   last, written, returned, foreign, outs>>

\* a decoder's unmarshallMap(th, data, ...) with data holding prior
DoUnmarshallMap(prior) ==
    LET r == unmarshallMap(tagBuffer, th.offset, prior)
    IN  UnmarshalledAs("map",
                       FieldOf("map", [before |-> prior, after |-> r.data],
                               th.offset),
                       r.offset - th.offset)

InitMap ==
    /\ tt = MersenneTwister
    /\ host \in Hosts
    /\ tagBuffer \in {[i \in 0 .. MapBufSize - 1 |-> f] : f \in {0, 255}}
    /\ th = [tagID |-> TAG_YOU_DUNGEON, offset |-> 0]
    /\ stream = <<>>
    /\ rpos = 0
    /\ vlen = 0
    /\ mode = "write"
    /\ status = "running"
    /\ tags = [i \in 0 .. NUM_TAGS - 1 |-> 0]
    /\ mi = 0
    /\ fileType = "none"
    /\ menv = [i \in 0 .. MaxMonsters - 1 |-> NoMonster]
    /\ last = NoCall
    /\ written = <<>>
    /\ returned = <<>>
    /\ foreign = FALSE
    /\ fields = <<>>
    /\ outs = <<>>

NextMap ==
    \/ \E data \in MapInputs : DoMarshallMap(data)
    \/ BeginDecode
    \/ \E prior \in PriorMaps : DoUnmarshallMap(prior)

SpecMap == InitMap /\ [][NextMap]_vars

\* C28: after unmarshallMap has decoded a map written by marshallMap the
\* destination map is exactly the encoded map, whatever it held before: keys
\* it held that the record lacks are gone, and a key of both carries the
\* value of the record.
C28_MapReplaced ==
    (outs # <<>> /\ outs[1].kind = "map") => outs[1].v.after = fields[1].v

\* a map read into an empty map is the map stored
EmptyMapRoundTrip ==
    (outs # <<>> /\ outs[1].kind = "map" /\ outs[1].v.before = EmptyMap) =>
        /\ outs[1].v.after = fields[1].v
        /\ OutEnd(1) = 4 + 8 * Cardinality(DOMAIN fields[1].v)

-----------------------------------------------------------------------------
(* Generator specification: a MersenneTwister is constructed and its
   members are called in any order. *)

\* the tt of the other generators handed to charge
OtherGenerators == {0, 1, tx_n - 1, tx_n}

\* a call op of the generator left it with the index t; seen is what the
\* call read and did, last.tt the index rand32 found
Called(op, t, seen) ==
    /\ status = "running"
    /\ tt' = t
    /\ last' = [op |-> op, tt |-> IF op = "rand32" THEN tt ELSE -1,
                read |-> seen.read,
                shuffled |-> seen.shuffled, other |-> seen.other]
    /\ status' = IF seen.exited THEN "ended" ELSE status
    /\ UNCHANGED <<host, tagBuffer, th, stream, rpos, vlen, mode, tags, mi,
                   fileType, menv, written, returned, foreign, fields, outs>>

\* what a call that reads no word of rt is seen to do
NoRead == [read |-> -1, shuffled |-> FALSE, other |-> 0, exited |-> FALSE]

DoInit == Called("init", init(tt), NoRead)

DoDisturb == Called("disturb", disturb(tt), NoRead)

DoInitArray == Called("init_array", init_array(tt), NoRead)

DoShuffle == Called("shuffle", shuffle(tt), [NoRead EXCEPT !.shuffled = TRUE])

DoRand32 ==
    LET r == rand32(tt)
    IN  Called("rand32", r.tt,
               [read |-> r.read, shuffled |-> r.shuffled, other |-> 0,
                exited |-> r.exited])

DoCharge(other, self) ==
    LET r == charge(tt, other, self)
    IN  Called("charge", r.tt,
               [read |-> -1, shuffled |-> FALSE, other |-> r.other,
                exited |-> ~r.ok])

InitMersenne ==
    /\ InitCommon
    /\ host = [longBits |-> 32, charSigned |-> TRUE]
    /\ tagBuffer = [i \in 0 .. TagBufSize - 1 |-> 0]
    /\ mode = "save"
    /\ tags = [i \in 0 .. NUM_TAGS - 1 |-> 0]
    /\ menv = [i \in 0 .. MaxMonsters - 1 |-> NoMonster]

NextMersenne ==
    \/ DoInit
    \/ DoDisturb
    \/ DoInitArray
    \/ DoShuffle
    \/ DoRand32
    \/ \E other \in OtherGenerators : DoCharge(other, FALSE)
    \/ DoCharge(tx_n, TRUE)

SpecMersenne == InitMersenne /\ [][NextMersenne]_vars

\* C30: after construction and any sequence of init, disturb, init_array,
\* charge, shuffle and rand32 calls tt is at most tx_n, and rand32 reads
\* rt[tt] with tt < tx_n only: it calls shuffle, which sets tt to 0, exactly
\* when tt equals tx_n, reads, and then increments tt by 1.
C30_IndexWithinWords ==
    /\ tt >= 0 /\ tt <= tx_n
    /\ status = "running"
    /\ last.op = "rand32" =>
           /\ last.shuffled = (last.tt = tx_n)
           /\ last.read = (IF last.tt = tx_n THEN 0 ELSE last.tt)
           /\ last.read >= 0 /\ last.read < tx_n
           /\ tt = last.read + 1
    /\ last.op = "charge" => last.other >= 0 /\ last.other <= tx_n

C30_Witness ==
    /\ last.op = "rand32"
    /\ last.tt = tx_n
    /\ last.shuffled
    /\ last.read = 0
    /\ tt = 1

====
